---- MODULE Spec2Model ----
(***************************************************************************)
(* Link-repair scripts of cursor-agentic-ai.                               *)
(*                                                                         *)
(* Three scripts share one shape: detect_broken_patterns_in_line scans a   *)
(* line with a catalogue of regular expressions, fix_broken_patterns_in_   *)
(* line splices the matches rightmost first, process_file streams the      *)
(* lines of one file through both and writes the file back.                *)
(*   "main"   : src/scripts/fix_broken_links.py                            *)
(*   "backup" : src/backups/scripts-cleanup-.../fix_broken_links.py        *)
(*   "cursor" : src/scripts/fix_cursor_rules_links.py                      *)
(*                                                                         *)
(* A string is a sequence of one-character strings; offsets are 0-based as *)
(* in Python, so the character at offset i of s is s[i+1].                 *)
(***************************************************************************)
EXTENDS Integers, Sequences, FiniteSets, TLC

VARIABLES
    script,          \* which script runs
    file_mappings,   \* registry: filename -> path, as load_file_mappings built it
    disk,            \* content of the file on disk, a sequence of lines
    writes,          \* how many times the file was opened for writing
    pc,              \* position in process_file
    lines,           \* f.readlines()
    line_number,     \* number of lines processed so far
    line,            \* the line handed to detect / fix
    broken_patterns, \* what detect returned for line
    sorted_patterns, \* matches fix has still to handle, rightmost first
    updated_line,    \* the line being edited by fix
    fixes_made,      \* fixes counted by fix for this line
    updated_lines,   \* process_file's output lines
    total_fixes,     \* process_file's running fix count
    total_patterns,  \* process_file's running match count
    file_modified,   \* the cursor script's flag
    result,          \* process_file's return value
    error,           \* the error process_file reported: "none", "read" or "write"
    \* main() of src/scripts/fix_broken_links.py
    main_pc,           \* position in main
    listing,           \* cursor_files_list.mdc: its lines, or Missing
    tree,              \* the .mdc files of the project: path -> content
    files_to_process,  \* what get_all_mdc_files returned
    file_index,        \* how many files the loop has passed to process_file
    total_files_fixed, \* main's count of files with fixes
    run_total_fixes,   \* main's total_fixes
    outcomes,          \* per file passed to process_file: path, value returned, error
    \* MDCPathValidator of src/agents/_store/scripts/core/mdc_path_validator.py
    v_pc,              \* position in the constructor and in validate_all_mdc_files
    project,           \* the files below the project root: relative path -> text
    dry_run,           \* the argument of validate_all_mdc_files
    valid_files,       \* self.valid_files
    mdc_files,         \* the files os.walk found
    content,           \* fix_file_links: the text being edited
    original_content,  \* fix_file_links: the text as read
    links,             \* fix_file_links: what find_markdown_links returned
    link_index,        \* fix_file_links: how many links the loop has handled
    results,           \* fix_file_links: the dictionary it returns
    all_results,       \* validate_all_mdc_files: the dictionary it returns
    v_writes,          \* the paths fix_file_links wrote, in order
    \* main() of the scripts of src/agents/_store/projects/_core/rules/01__AI-RUN
    fix_script,        \* which of the scripts runs
    fix_pc,            \* position in main and in the function it calls
    folder,            \* the files of the working directory: name -> text
    fix_files,         \* sorted(files)
    fix_index,         \* how many files the loop has handled
    fix_content,       \* content of the function
    fix_original,      \* original_content of the function
    fix_written,       \* the files written in this run, in order
    fix_error,         \* the exception raised: "none", "read" or "write"
    passes,            \* how many times the script has been started
    \* main() of the scripts that write the listing
    list_script,       \* which of the scripts runs
    list_pc,           \* position in main and in update_cursor_files_list
    find_output,       \* the files the find command prints
    list_files,        \* files, sorted
    list_index,        \* how many files the loop has handled
    list_filepath,          \* the file of the last turn of the loop
    formatted_entry,   \* its entry
    file_list_content, \* the entries so far
    processed_files,   \* how many entries were appended
    target_file        \* what was written to the listing, None if nothing

fileVars == <<script, file_mappings, disk, writes, pc, lines, line_number, line,
              broken_patterns, sorted_patterns, updated_line, fixes_made,
              updated_lines, total_fixes, total_patterns, file_modified, result, error>>

mainVars == <<main_pc, listing, tree, files_to_process, file_index, total_files_fixed,
              run_total_fixes, outcomes>>

validatorVars == <<v_pc, project, dry_run, valid_files, mdc_files, content,
                   original_content, links, link_index, results, all_results, v_writes>>

fixVars == <<fix_script, fix_pc, folder, fix_files, fix_index, fix_content,
             fix_original, fix_written, fix_error, passes>>

\* the scripts that neither main() of fix_broken_links.py nor the validator calls
listVars == <<list_script, list_pc, find_output, list_files, list_index, list_filepath,
              formatted_entry, file_list_content, processed_files, target_file>>

toolVars == <<fixVars, listVars>>

\* what no step of process_file touches
otherVars == <<mainVars, validatorVars, toolVars>>

vars == <<fileVars, otherVars>>

(***************************************************************************)
(* Python string primitives.                                               *)
(***************************************************************************)
Min(a, b) == IF a < b THEN a ELSE b

Max(a, b) == IF a > b THEN a ELSE b

\* s[:n] for n >= 0 (a slice clamps to the length of s)
Prefix(s, n) == SubSeq(s, 1, Min(n, Len(s)))

\* s[n:] for n >= 0
Suffix(s, n) == SubSeq(s, Min(n, Len(s)) + 1, Len(s))

\* s[a:b] for a, b >= 0
Slice(s, a, b) == SubSeq(s, Min(a, Len(s)) + 1, Min(b, Len(s)))

\* s[:start] + replacement + s[end:]
Splice(s, start, end, replacement) == Prefix(s, start) \o replacement \o Suffix(s, end)

RECURSIVE FindFrom(_, _, _)
\* offset of the first c in s at or after offset i (0 <= i), or -1
FindFrom(s, c, i) ==
    IF i >= Len(s) THEN -1
    ELSE IF s[i + 1] = c THEN i
    ELSE FindFrom(s, c, i + 1)

\* s.find(c, start): a negative start counts from the end of s
Find(s, c, start) ==
    FindFrom(s, c, IF start < 0 THEN Max(Len(s) + start, 0) ELSE start)

\* s.startswith(c) for a one-character c
StartsWith(s, c) == Len(s) > 0 /\ s[1] = c

RECURSIVE RStripNewline(_)
\* s.rstrip('\n')
RStripNewline(s) ==
    IF Len(s) > 0 /\ s[Len(s)] = "\n" THEN RStripNewline(SubSeq(s, 1, Len(s) - 1))
    ELSE s

(***************************************************************************)
(* Regular expressions.  A pattern is a sequence of items:                 *)
(*   lit  one literal character                                            *)
(*   cls  a greedy repetition {lo,hi} of a character class (hi = -1: no    *)
(*        upper limit); neg tells whether the class is negated             *)
(*   nlb  negative lookbehind for one character, (?<!c)                    *)
(*   nla  negative lookahead for one character, (?!c)                      *)
(* The matcher backtracks as Python's re does: a greedy item takes the     *)
(* longest run first and gives characters back one at a time.  A match is  *)
(* reported with the offset reached after each item, from which the groups *)
(* are cut.                                                                *)
(***************************************************************************)
\* the backtick character (the grave accent cannot be written in a TLA+ string)
Backtick == "BACKTICK"

Whitespace == {" ", "\t", "\n", "\r", "\f"}

Lit(c) == [k |-> "lit", neg |-> FALSE, cs |-> {c}, lo |-> 1, hi |-> 1]

Not(cs, lo, hi) == [k |-> "cls", neg |-> TRUE, cs |-> cs, lo |-> lo, hi |-> hi]

In(cs, lo, hi) == [k |-> "cls", neg |-> FALSE, cs |-> cs, lo |-> lo, hi |-> hi]

NotBehind(c) == [k |-> "nlb", neg |-> TRUE, cs |-> {c}, lo |-> 0, hi |-> 0]

NotAhead(c) == [k |-> "nla", neg |-> TRUE, cs |-> {c}, lo |-> 0, hi |-> 0]

\* a literal string, one lit item per character
Lits(s) == [i \in 1..Len(s) |-> Lit(s[i])]

InClass(it, c) == IF it.neg THEN c \notin it.cs ELSE c \in it.cs

RECURSIVE FirstOutside(_, _, _, _)
\* the least offset in lo..hi whose character is not in the class of it, hi if there
\* is none before hi: found by halving lo..hi
FirstOutside(it, s, lo, hi) ==
    IF lo >= hi THEN hi
    ELSE IF \E o \in lo..((lo + hi) \div 2) : ~InClass(it, s[o + 1])
    THEN FirstOutside(it, s, lo, (lo + hi) \div 2)
    ELSE FirstOutside(it, s, (lo + hi) \div 2 + 1, hi)

\* how many characters of s from offset pos on are in the class of it, at most cap
Run(it, s, pos, cap) ==
    FirstOutside(it, s, pos, pos + Min(cap, Max(Len(s) - pos, 0))) - pos

NoMatch == [ok |-> FALSE, ends |-> <<>>]

Reached(pos, r) == IF r.ok THEN [ok |-> TRUE, ends |-> <<pos>> \o r.ends] ELSE NoMatch

\* how many of the items i.. of pat are literals in a row
LitRun(pat, i) ==
    CHOOSE n \in 0..(Len(pat) - i + 1) :
        /\ \A j \in 0..(n - 1) : pat[i + j].k = "lit"
        /\ i + n > Len(pat) \/ pat[i + n].k # "lit"

\* the n literals matched from offset pos on, then the match r of the other items
ReachedRun(pos, n, r) ==
    IF r.ok THEN [ok |-> TRUE, ends |-> [j \in 1..n |-> pos + j] \o r.ends] ELSE NoMatch

RECURSIVE MatchFrom(_, _, _, _)
RECURSIVE TryCount(_, _, _, _, _)
\* match items i.. of pat against s at offset pos; literals in a row are compared
\* in one step
MatchFrom(pat, i, s, pos) ==
    IF i > Len(pat) THEN [ok |-> TRUE, ends |-> <<>>]
    ELSE LET it == pat[i] IN
         CASE it.k = "lit" ->
                IF pos < Len(s) /\ s[pos + 1] \in it.cs
                THEN IF /\ pos + LitRun(pat, i) <= Len(s)
                        /\ \A j \in 1..(LitRun(pat, i) - 1) : s[pos + j + 1] \in pat[i + j].cs
                     THEN ReachedRun(pos, LitRun(pat, i),
                                     MatchFrom(pat, i + LitRun(pat, i), s,
                                               pos + LitRun(pat, i)))
                     ELSE NoMatch
                ELSE NoMatch
           [] it.k = "nlb" ->
                IF pos > 0 /\ s[pos] \in it.cs
                THEN NoMatch
                ELSE Reached(pos, MatchFrom(pat, i + 1, s, pos))
           [] it.k = "nla" ->
                IF pos < Len(s) /\ s[pos + 1] \in it.cs
                THEN NoMatch
                ELSE Reached(pos, MatchFrom(pat, i + 1, s, pos))
           [] it.k = "cls" ->
                TryCount(pat, i, s, pos,
                         Run(it, s, pos, IF it.hi < 0 THEN Len(s) ELSE it.hi))

\* the greedy item i takes n characters, then n - 1, ... down to its minimum
TryCount(pat, i, s, pos, n) ==
    IF n < pat[i].lo THEN NoMatch
    ELSE LET r == MatchFrom(pat, i + 1, s, pos + n) IN
         IF r.ok THEN Reached(pos + n, r)
         ELSE TryCount(pat, i, s, pos, n - 1)

\* re.search(pat, s) is not None
Search(pat, s) == \E p \in 0..Len(s) : MatchFrom(pat, 1, s, p).ok

RECURSIVE FirstMatch(_, _, _, _)
\* the least offset in lo..hi at which pat matches, when there is one: found by
\* halving lo..hi
FirstMatch(pat, s, lo, hi) ==
    IF lo >= hi THEN hi
    ELSE IF \E q \in lo..((lo + hi) \div 2) : MatchFrom(pat, 1, s, q).ok
    THEN FirstMatch(pat, s, lo, (lo + hi) \div 2)
    ELSE FirstMatch(pat, s, (lo + hi) \div 2 + 1, hi)

RECURSIVE FindIter(_, _, _)
\* the match r of pat at offset q, and the matches after it
MatchesFrom(pat, s, q, r) ==
    <<[start |-> q, end |-> r.ends[Len(r.ends)], ends |-> r.ends]>>
        \o FindIter(pat, s, IF r.ends[Len(r.ends)] > q THEN r.ends[Len(r.ends)] ELSE q + 1)

\* re.finditer(pat, s): the non-overlapping matches from offset p on, left to right
FindIter(pat, s, p) ==
    IF \A q \in p..Len(s) : ~MatchFrom(pat, 1, s, q).ok THEN <<>>
    ELSE LET q == FirstMatch(pat, s, p, Len(s))
         IN  MatchesFrom(pat, s, q, MatchFrom(pat, 1, s, q))

\* offset reached after item j of match m (j = 0: the start of the match)
Boundary(m, j) == IF j = 0 THEN m.start ELSE m.ends[j]

\* the text matched by items a..b of match m: a capture group
Group(s, m, a, b) == SubSeq(s, Boundary(m, a - 1) + 1, Boundary(m, b))

\* match.group(0)
Group0(s, m) == SubSeq(s, m.start + 1, m.end)

(***************************************************************************)
(* src/scripts/fix_broken_links.py                                         *)
(***************************************************************************)
CursorRules == <<".", "c", "u", "r", "s", "o", "r", "/", "r", "u", "l", "e", "s", "/">>

\* `\[[^\]]+\]\([^)]+\)`
inline_code_pattern ==
    <<Lit(Backtick), Lit("["), Not({"]"}, 1, -1), Lit("]"), Lit("("), Not({")"}, 1, -1),
      Lit(")"), Lit(Backtick)>>

\* \[([^\]]{1,100})\]\(([^)]{0,200})\[([^\]]{1,100})\]\(([^)]{1,200})\)\)
main_pattern1 ==
    <<Lit("["), Not({"]"}, 1, 100), Lit("]"), Lit("("), Not({")"}, 0, 200),
      Lit("["), Not({"]"}, 1, 100), Lit("]"), Lit("("), Not({")"}, 1, 200),
      Lit(")"), Lit(")")>>

\* \[([^\]]{1,100})\]\(([^)]*\.cursor/rules/[^)]*\.cursor/rules/[^)]{1,200})\)
main_pattern2 ==
    <<Lit("["), Not({"]"}, 1, 100), Lit("]"), Lit("("), Not({")"}, 0, -1)>>
        \o Lits(CursorRules) \o <<Not({")"}, 0, -1)>> \o Lits(CursorRules)
        \o <<Not({")"}, 1, 200), Lit(")")>>

\* \[([^\]]{1,100})\]\(([^)]{1,200})\)\]\(([^)]{1,200})\)
main_pattern3 ==
    <<Lit("["), Not({"]"}, 1, 100), Lit("]"), Lit("("), Not({")"}, 1, 200),
      Lit(")"), Lit("]"), Lit("("), Not({")"}, 1, 200), Lit(")")>>

\* (?<!\[)([^[\n]{0,50})\.cursor/rules/[^/\n]{1,50}/\[([^\]]{1,100})\]\(([^)]{1,200})\)
main_pattern4 ==
    <<NotBehind("["), Not({"[", "\n"}, 0, 50)>> \o Lits(CursorRules)
        \o <<Not({"/", "\n"}, 1, 50), Lit("/"), Lit("["), Not({"]"}, 1, 100),
             Lit("]"), Lit("("), Not({")"}, 1, 200), Lit(")")>>

\* \[([^\]]{1,100})\]\(([^)]{0,100})\[([^\]]{0,50})\]([^)]{0,100})\)
main_pattern5 ==
    <<Lit("["), Not({"]"}, 1, 100), Lit("]"), Lit("("), Not({")"}, 0, 100),
      Lit("["), Not({"]"}, 0, 50), Lit("]"), Not({")"}, 0, 100), Lit(")")>>

\* \[`\[([^\]]{1,100})\]\(([^)]{1,200})\)\)
main_pattern6 ==
    <<Lit("["), Lit(Backtick), Lit("["), Not({"]"}, 1, 100), Lit("]"), Lit("("),
      Not({")"}, 1, 200), Lit(")"), Lit(")")>>

\* \[`([^\]]{1,100})\]\(([^)]{1,200})\)\)
main_pattern7 ==
    <<Lit("["), Lit(Backtick), Not({"]"}, 1, 100), Lit("]"), Lit("("),
      Not({")"}, 1, 200), Lit(")"), Lit(")")>>

\* \[\[([^\]]{1,100})\]\(([^)]{1,200})\)
main_pattern8 ==
    <<Lit("["), Lit("["), Not({"]"}, 1, 100), Lit("]"), Lit("("),
      Not({")"}, 1, 200), Lit(")")>>

\* \[`\[([^\]]{1,100})\]\(([^)]{1,200})\)`\]\(([^)]{1,200})\)
main_pattern9 ==
    <<Lit("["), Lit(Backtick), Lit("["), Not({"]"}, 1, 100), Lit("]"), Lit("("),
      Not({")"}, 1, 200), Lit(")"), Lit(Backtick), Lit("]"), Lit("("),
      Not({")"}, 1, 200), Lit(")")>>

\* \[`([^\]]{1,100})\]\(([^)]{1,200})\)\)   (the same expression as pattern 7)
main_pattern10 ==
    <<Lit("["), Lit(Backtick), Not({"]"}, 1, 100), Lit("]"), Lit("("),
      Not({")"}, 1, 200), Lit(")"), Lit(")")>>

\* The entries one finditer loop appends: type, the match's span and text, and the
\* group the fix reads as the filename (item g of the pattern; 'inner_filename' for
\* nested_brackets, 'filename' for the others).  The other groups are stored by the
\* script and never read.
MainEntries(pat, type, g, ln, n) ==
    LET ms == FindIter(pat, ln, 0) IN
    [i \in 1..Len(ms) |->
        [type |-> type, line_number |-> n, start |-> ms[i].start, end |-> ms[i].end,
         full_text |-> Group0(ln, ms[i]), filename |-> Group(ln, ms[i], g, g)]]

\* patterns 1 to 5, which run on every line
MainAlways(ln, n) ==
    MainEntries(main_pattern1, "nested_brackets", 7, ln, n)
        \o MainEntries(main_pattern2, "double_path", 2, ln, n)
        \o MainEntries(main_pattern3, "double_ending", 2, ln, n)
        \o MainEntries(main_pattern4, "mixed_text_link", 20, ln, n)
        \o MainEntries(main_pattern5, "malformed_path", 2, ln, n)

\* patterns 6 to 10, which run only when the line holds no inline-code link
MainGuarded(ln, n) ==
    IF ~Search(inline_code_pattern, ln)
    THEN MainEntries(main_pattern6, "backtick_bracket", 4, ln, n)
            \o MainEntries(main_pattern7, "missing_bracket_double_paren", 3, ln, n)
            \o MainEntries(main_pattern8, "double_square_bracket", 3, ln, n)
            \o MainEntries(main_pattern9, "complex_nested_backtick", 4, ln, n)
            \o MainEntries(main_pattern10, "missing_close_bracket", 3, ln, n)
    ELSE <<>>

\* detect_broken_patterns_in_line(line, line_number)
DetectMain(ln, n) == MainAlways(ln, n) \o MainGuarded(ln, n)

MainTypes ==
    {"nested_brackets", "double_path", "malformed_path", "double_ending",
     "mixed_text_link", "backtick_bracket", "missing_bracket_double_paren",
     "double_square_bracket", "complex_nested_backtick", "missing_close_bracket"}

\* f"[{filename}]({correct_path})"
Replacement(filename, correct_path) ==
    <<"[">> \o filename \o <<"]", "(">> \o correct_path \o <<")">>

RECURSIVE InsertDesc(_, _)
\* x, which came before every element of ps, put before the first one that does not
\* start further right
InsertDesc(x, ps) ==
    IF ps = <<>> THEN <<x>>
    ELSE IF Head(ps).start > x.start THEN <<Head(ps)>> \o InsertDesc(x, Tail(ps))
    ELSE <<x>> \o ps

RECURSIVE InsertAsc(_, _)
InsertAsc(x, ps) ==
    IF ps = <<>> THEN <<x>>
    ELSE IF Head(ps).start < x.start THEN <<Head(ps)>> \o InsertAsc(x, Tail(ps))
    ELSE <<x>> \o ps

RECURSIVE SortedLeftmostFirst(_)
\* the sort without reverse=True: leftmost match first
SortedLeftmostFirst(ps) ==
    IF ps = <<>> THEN <<>> ELSE InsertAsc(Head(ps), SortedLeftmostFirst(Tail(ps)))

RECURSIVE SortedPatterns(_)
\* sorted(patterns, key=start, reverse=True): stable, equal starts keep their order
SortedPatterns(ps) ==
    IF ps = <<>> THEN <<>> ELSE InsertDesc(Head(ps), SortedPatterns(Tail(ps)))

\* the fix loop without its registry test: a missing entry yields a guessed path
FixOneMainUnguarded(st, p, reg) ==
    IF p.type \in MainTypes
    THEN [line |-> Splice(st.line, p.start, p.end,
                          Replacement(p.filename,
                                      IF p.filename \in DOMAIN reg THEN reg[p.filename]
                                      ELSE p.filename)),
          fixes |-> st.fixes + 1]
    ELSE st

\* one iteration of the fix loop: every branch of the if/elif chain is the same
\* registry lookup and splice
FixOneMain(st, p, reg) ==
    IF p.type \in MainTypes /\ p.filename \in DOMAIN reg
    THEN [line |-> Splice(st.line, p.start, p.end, Replacement(p.filename, reg[p.filename])),
          fixes |-> st.fixes + 1]
    ELSE st

RECURSIVE FixLoopMain(_, _, _)
FixLoopMain(st, ps, reg) ==
    IF ps = <<>> THEN st
    ELSE FixLoopMain(FixOneMain(st, Head(ps), reg), Tail(ps), reg)

\* fix_broken_patterns_in_line(line, broken_patterns, file_mappings)
FixLineMain(ln, ps, reg) ==
    FixLoopMain([line |-> ln, fixes |-> 0], SortedPatterns(ps), reg)

(***************************************************************************)
(* src/backups/scripts-cleanup-2025-05-24T15-58-03-440Z/fix_broken_links.py *)
(***************************************************************************)
\* (?<!\[)`\[[^\]]+\]\([^)]+\)`(?!\])
simple_inline_code_pattern ==
    <<NotBehind("["), Lit(Backtick), Lit("["), Not({"]"}, 1, -1), Lit("]"), Lit("("),
      Not({")"}, 1, -1), Lit(")"), Lit(Backtick), NotAhead("]")>>

\* bool(re.search(r'\[`\[|\]`\]', line))
complex_pattern_exists(ln) ==
    \/ Search(<<Lit("["), Lit(Backtick), Lit("[")>>, ln)
    \/ Search(<<Lit("]"), Lit(Backtick), Lit("]")>>, ln)

\* the early return of detect: only simple inline code on the line
SkipsLine(ln) == Search(simple_inline_code_pattern, ln) /\ ~complex_pattern_exists(ln)

\* \[([^\]]+)\]\([^)]*\[([^\]]+)\]\([^)]*\)[^)]*\)
bk_pattern1 ==
    <<Lit("["), Not({"]"}, 1, -1), Lit("]"), Lit("("), Not({")"}, 0, -1), Lit("["),
      Not({"]"}, 1, -1), Lit("]"), Lit("("), Not({")"}, 0, -1), Lit(")"),
      Not({")"}, 0, -1), Lit(")")>>

\* ([^[\s]+)/\[([^\]]+)\]\(([^)]+)\)
bk_pattern2 ==
    <<Not({"["} \cup Whitespace, 1, -1), Lit("/"), Lit("["), Not({"]"}, 1, -1),
      Lit("]"), Lit("("), Not({")"}, 1, -1), Lit(")")>>

\* \[`\[([^\]]+)\]\(([^)]+)\)\]
bk_pattern3 ==
    <<Lit("["), Lit(Backtick), Lit("["), Not({"]"}, 1, -1), Lit("]"), Lit("("),
      Not({")"}, 1, -1), Lit(")"), Lit("]")>>

\* \[\[([^\]]+)\]\(([^)]+)\)
bk_pattern4 ==
    <<Lit("["), Lit("["), Not({"]"}, 1, -1), Lit("]"), Lit("("), Not({")"}, 1, -1),
      Lit(")")>>

\* `\[([^\]]+)\]\(([^)]+)\)\]
bk_pattern5 ==
    <<Lit(Backtick), Lit("["), Not({"]"}, 1, -1), Lit("]"), Lit("("),
      Not({")"}, 1, -1), Lit(")"), Lit("]")>>

\* pattern 6 with its brackets and parentheses made optional: a bare filename matches
bk_pattern6_bare ==
    <<NotBehind("["), Not({"[", "]"} \cup Whitespace, 1, -1), Lit("."), Lit("m"),
      Lit("d"), Lit("c"), In({"]"}, 0, 1), In({"("}, 0, 1), Not({")"}, 1, -1),
      In({")"}, 0, 1)>>

\* (?<!\[)([^\s\[\]]+\.mdc)\]\(([^)]+)\)
bk_pattern6 ==
    <<NotBehind("["), Not({"[", "]"} \cup Whitespace, 1, -1), Lit("."), Lit("m"),
      Lit("d"), Lit("c"), Lit("]"), Lit("("), Not({")"}, 1, -1), Lit(")")>>

\* \[`\[([^\]]+)\]\(([^)]+)\)`\]\(([^)]+)\)     (patterns 7, 11 and 12)
bk_pattern7 ==
    <<Lit("["), Lit(Backtick), Lit("["), Not({"]"}, 1, -1), Lit("]"), Lit("("),
      Not({")"}, 1, -1), Lit(")"), Lit(Backtick), Lit("]"), Lit("("),
      Not({")"}, 1, -1), Lit(")")>>

\* \[([^\]]+)\]\(([^)]+)(?!\))
bk_pattern8 ==
    <<Lit("["), Not({"]"}, 1, -1), Lit("]"), Lit("("), Not({")"}, 1, -1),
      NotAhead(")")>>

\* `\[([^\]]+)\]\([^)]*`\[([^\]]+)\]\([^)]*\)`[^)]*\)`
bk_pattern9 ==
    <<Lit(Backtick), Lit("["), Not({"]"}, 1, -1), Lit("]"), Lit("("),
      Not({")"}, 0, -1), Lit(Backtick), Lit("["), Not({"]"}, 1, -1), Lit("]"),
      Lit("("), Not({")"}, 0, -1), Lit(")"), Lit(Backtick), Not({")"}, 0, -1),
      Lit(")"), Lit(Backtick)>>

\* \[([^\]]+)\]\(([^)]+\s+[^)]+)(?!\))
bk_pattern10 ==
    <<Lit("["), Not({"]"}, 1, -1), Lit("]"), Lit("("), Not({")"}, 1, -1),
      In(Whitespace, 1, -1), Not({")"}, 1, -1), NotAhead(")")>>

\* \[([^\]]+)\]\(([^)]+)\)\)
bk_pattern13 ==
    <<Lit("["), Not({"]"}, 1, -1), Lit("]"), Lit("("), Not({")"}, 1, -1), Lit(")"),
      Lit(")")>>

\* \[([^\]]+)\]\(mdc:([^)]+)\)
bk_pattern14 ==
    <<Lit("["), Not({"]"}, 1, -1), Lit("]"), Lit("("), Lit("m"), Lit("d"), Lit("c"),
      Lit(":"), Not({")"}, 1, -1), Lit(")")>>

\* \[([^\]]+)\]\(mdc:([^)]+)\)\)
bk_pattern15 ==
    <<Lit("["), Not({"]"}, 1, -1), Lit("]"), Lit("("), Lit("m"), Lit("d"), Lit("c"),
      Lit(":"), Not({")"}, 1, -1), Lit(")"), Lit(")")>>

\* the entry appended for match m of the line
BkEntry(type, ln, n, m) ==
    [type |-> type, line_number |-> n, match |-> Group0(ln, m), start |-> m.start,
     end |-> m.end]

\* the entries one finditer loop appends
BkEntries(pat, type, ln, n) ==
    LET ms == FindIter(pat, ln, 0) IN
    [i \in 1..Len(ms) |-> BkEntry(type, ln, n, ms[i])]

\* pattern 2 keeps a match only if its text does not start with '['
BkMixedEntries(ln, n) ==
    LET Keep(m) == ~StartsWith(Group0(ln, m), "[")
        ms == SelectSeq(FindIter(bk_pattern2, ln, 0), Keep)
    IN  [i \in 1..Len(ms) |-> BkEntry("mixed_text_embedded_link", ln, n, ms[i])]

\* pattern 8 keeps a match only if the line ends there or one of ' \t\n.,;:!?' follows
BkMissingCloseEntries(ln, n) ==
    LET Keep(m) == \/ m.end = Len(ln)
                   \/ ln[m.end + 1] \in {" ", "\t", "\n", ".", ",", ";", ":", "!", "?"}
        ms == SelectSeq(FindIter(bk_pattern8, ln, 0), Keep)
    IN  [i \in 1..Len(ms) |-> BkEntry("missing_close_bracket", ln, n, ms[i])]

\* detect_broken_patterns_in_line(line, line_number)
DetectBackup(ln, n) ==
    IF SkipsLine(ln) THEN <<>>
    ELSE BkEntries(bk_pattern1, "nested_brackets_double_path", ln, n)
        \o BkMixedEntries(ln, n)
        \o BkEntries(bk_pattern3, "complex_bracket_backtick", ln, n)
        \o BkEntries(bk_pattern4, "double_square_brackets", ln, n)
        \o BkEntries(bk_pattern5, "backtick_bracket_combo", ln, n)
        \o BkEntries(bk_pattern6, "missing_opening_bracket", ln, n)
        \o BkEntries(bk_pattern7, "complex_nested_backticks", ln, n)
        \o BkMissingCloseEntries(ln, n)
        \o BkEntries(bk_pattern9, "complex_nested_backticks_paths", ln, n)
        \o BkEntries(bk_pattern10, "missing_close_bracket_with_text", ln, n)
        \o BkEntries(bk_pattern7, "nested_backtick_brackets", ln, n)
        \o BkEntries(bk_pattern7, "complex_nested_bracket_pattern", ln, n)
        \o BkEntries(bk_pattern13, "extra_closing_parenthesis", ln, n)
        \o BkEntries(bk_pattern14, "mdc_prefix_in_path", ln, n)
        \o BkEntries(bk_pattern15, "mdc_prefix_with_extra_parenthesis", ln, n)

\* the types whose branch reads the name between the first '[' and the next ']'
BkFirstBracketTypes ==
    {"nested_brackets_double_path", "mixed_text_embedded_link",
     "complex_bracket_backtick", "double_square_brackets", "backtick_bracket_combo",
     "missing_opening_bracket", "complex_nested_backticks", "missing_close_bracket",
     "complex_nested_backticks_paths", "missing_close_bracket_with_text",
     "nested_backtick_brackets", "extra_closing_parenthesis", "mdc_prefix_in_path",
     "mdc_prefix_with_extra_parenthesis"}

\* bracket_start = find('['); bracket_end = find(']', bracket_start);
\* filename = match_text[bracket_start+1:bracket_end] if both were found
FirstBracketName(match_text) ==
    LET bracket_start == Find(match_text, "[", 0)
        bracket_end == Find(match_text, "]", bracket_start)
    IN  IF bracket_start # -1 /\ bracket_end # -1
        THEN [ok |-> TRUE, filename |-> Slice(match_text, bracket_start + 1, bracket_end)]
        ELSE [ok |-> FALSE, filename |-> <<>>]

\* the name between the second '[' and the next ']'
SecondBracketName(match_text) ==
    LET first_bracket == Find(match_text, "[", 0)
        second_bracket == Find(match_text, "[", first_bracket + 1)
        second_bracket_end == Find(match_text, "]", second_bracket)
    IN  IF second_bracket # -1 /\ second_bracket_end # -1
        THEN [ok |-> TRUE,
              filename |-> Slice(match_text, second_bracket + 1, second_bracket_end)]
        ELSE [ok |-> FALSE, filename |-> <<>>]

\* the filename the branch of p's type extracts from the match text
BkExtract(p) ==
    IF p.type = "complex_nested_bracket_pattern" THEN SecondBracketName(p.match)
    ELSE IF p.type \in BkFirstBracketTypes THEN FirstBracketName(p.match)
    ELSE [ok |-> FALSE, filename |-> <<>>]

\* one iteration of the fix loop
FixOneBackup(st, p, reg) ==
    LET x == BkExtract(p) IN
    IF x.ok /\ x.filename \in DOMAIN reg
    THEN [line |-> Splice(st.line, p.start, p.end, Replacement(x.filename, reg[x.filename])),
          fixes |-> st.fixes + 1]
    ELSE st

RECURSIVE FixLoopBackup(_, _, _)
FixLoopBackup(st, ps, reg) ==
    IF ps = <<>> THEN st
    ELSE FixLoopBackup(FixOneBackup(st, Head(ps), reg), Tail(ps), reg)

RECURSIVE SameLine(_, _)
\* [p for p in broken_patterns if p['line_number'] == n]
SameLine(ps, n) ==
    IF ps = <<>> THEN <<>>
    ELSE (IF Head(ps).line_number = n THEN <<Head(ps)>> ELSE <<>>) \o SameLine(Tail(ps), n)

\* the matches the fix loop runs over, in its order
LinePatternsBackup(ps) ==
    IF ps = <<>> THEN <<>> ELSE SortedPatterns(SameLine(ps, ps[1].line_number))

\* fix_broken_patterns_in_line(line, broken_patterns, file_mappings)
FixLineBackup(ln, ps, reg) ==
    FixLoopBackup([line |-> ln, fixes |-> 0], LinePatternsBackup(ps), reg)

(***************************************************************************)
(* src/scripts/fix_cursor_rules_links.py                                   *)
(***************************************************************************)
\* \(([^)]+\.mdc)\)\(([^)]+\.mdc)\)
cr_pattern7 ==
    <<Lit("("), Not({")"}, 1, -1), Lit("."), Lit("m"), Lit("d"), Lit("c"), Lit(")"),
      Lit("("), Not({")"}, 1, -1), Lit("."), Lit("m"), Lit("d"), Lit("c"), Lit(")")>>

\* \[([^\]]+)\]\(\.cursor/rules/([^)]+)\)
cr_pattern8 ==
    <<Lit("["), Not({"]"}, 1, -1), Lit("]"), Lit("(")>> \o Lits(CursorRules)
        \o <<Not({")"}, 1, -1), Lit(")")>>

\* the entry appended for match m: its 'fix' is f"[{name}]({path})", name being items
\* a1..a2 of the pattern and path items b1..b2
CrEntry(type, ln, n, m, a1, a2, b1, b2) ==
    [type |-> type, line_number |-> n, match |-> Group0(ln, m), start |-> m.start,
     end |-> m.end,
     fix |-> Replacement(Group(ln, m, a1, a2), Group(ln, m, b1, b2))]

CrEntries(pat, type, ln, n, a1, a2, b1, b2) ==
    LET ms == FindIter(pat, ln, 0) IN
    [i \in 1..Len(ms) |-> CrEntry(type, ln, n, ms[i], a1, a2, b1, b2)]

CrMixedEntries(ln, n) ==
    LET Keep(m) == ~StartsWith(Group0(ln, m), "[")
        ms == SelectSeq(FindIter(bk_pattern2, ln, 0), Keep)
    IN  [i \in 1..Len(ms) |-> CrEntry("mixed_text_embedded_link", ln, n, ms[i], 4, 4, 7, 7)]

\* detect_broken_patterns_in_line(line, line_number); patterns 1 to 6 are the
\* expressions of the backup script
DetectCursor(ln, n) ==
    IF SkipsLine(ln) THEN <<>>
    ELSE CrEntries(bk_pattern1, "nested_brackets_double_path", ln, n, 7, 7, 7, 7)
        \o CrMixedEntries(ln, n)
        \o CrEntries(bk_pattern3, "complex_bracket_backtick", ln, n, 4, 4, 7, 7)
        \o CrEntries(bk_pattern4, "double_square_brackets", ln, n, 3, 3, 6, 6)
        \o CrEntries(bk_pattern5, "backtick_bracket_combo", ln, n, 3, 3, 6, 6)
        \o CrEntries(bk_pattern6, "missing_opening_bracket", ln, n, 2, 6, 9, 9)
        \o CrEntries(cr_pattern7, "double_parentheses", ln, n, 2, 6, 2, 6)
        \o CrEntries(cr_pattern8, "absolute_cursor_rules_path", ln, n, 2, 2, 19, 19)

\* one iteration of the fix loop: the predetermined fix is spliced in, file_mappings
\* is not read
FixOneCursor(st, p, reg) ==
    [line |-> Splice(st.line, p.start, p.end, p.fix), fixes |-> st.fixes + 1]

RECURSIVE FixLoopCursor(_, _, _)
FixLoopCursor(st, ps, reg) ==
    IF ps = <<>> THEN st
    ELSE FixLoopCursor(FixOneCursor(st, Head(ps), reg), Tail(ps), reg)

\* fix_broken_patterns_in_line(line, broken_patterns, file_mappings); fixes is
\* len(fixed_patterns)
FixLineCursor(ln, ps, reg) ==
    FixLoopCursor([line |-> ln, fixes |-> 0], SortedPatterns(ps), reg)

(***************************************************************************)
(* src/scripts/fix_broken_links.py: load_file_mappings, get_all_mdc_files  *)
(***************************************************************************)
RECURSIVE LStrip(_)
LStrip(s) == IF Len(s) > 0 /\ s[1] \in Whitespace THEN LStrip(Tail(s)) ELSE s

RECURSIVE RStrip(_)
RStrip(s) ==
    IF Len(s) > 0 /\ s[Len(s)] \in Whitespace THEN RStrip(SubSeq(s, 1, Len(s) - 1))
    ELSE s

\* s.strip()
Strip(s) == RStrip(LStrip(s))

\* sub in s
Contains(s, sub) == \E i \in 0..(Len(s) - Len(sub)) : Slice(s, i, i + Len(sub)) = sub

\* s.startswith(prefix)
StartsWithStr(s, prefix) == Prefix(s, Len(prefix)) = prefix

SetMin(S) == CHOOSE x \in S : \A y \in S : x <= y

\* ' : [' and '](' of the listing format
ColonBracket == <<" ", ":", " ", "[">>

BracketParen == <<"]", "(">>

\* . matches any character but a newline
DotRun(s, a, b) == a < b /\ \A i \in (a + 1)..b : s[i] # "\n"

\* re.match(r'(.+?) : \[(.+?)\]\((.+?)\)', ln): the match starts at offset 0 and
\* each lazy group takes the fewest characters that let the rest match.
\* e1, e2, e3 are the offsets at which groups 1, 2, 3 end.
ListingMatch(ln) ==
    LET n == Len(ln)
        Ends3(e2) == { e3 \in (e2 + 3)..(n - 1) :
                           ln[e3 + 1] = ")" /\ DotRun(ln, e2 + 2, e3) }
        Ends2(e1) == { e2 \in (e1 + 5)..(n - 1) :
                           /\ Slice(ln, e2, e2 + 2) = BracketParen
                           /\ DotRun(ln, e1 + 4, e2)
                           /\ Ends3(e2) # {} }
        Ends1 == { e1 \in 1..(n - 1) :
                       /\ Slice(ln, e1, e1 + 4) = ColonBracket
                       /\ DotRun(ln, 0, e1)
                       /\ Ends2(e1) # {} }
    IN  IF Ends1 = {} THEN [ok |-> FALSE, filename |-> <<>>, path |-> <<>>]
        ELSE LET e1 == SetMin(Ends1)
                 e2 == SetMin(Ends2(e1))
                 e3 == SetMin(Ends3(e2))
             IN  [ok |-> TRUE, filename |-> Slice(ln, 0, e1),
                  path |-> Slice(ln, e2 + 2, e3)]

\* the first entry of a filename is kept
PutIfAbsent(mappings, filename, path) ==
    [f \in DOMAIN mappings \cup {filename} |->
        IF f \in DOMAIN mappings THEN mappings[f] ELSE path]

\* mappings[filename] = path
Put(mappings, filename, path) ==
    [f \in DOMAIN mappings \cup {filename} |-> IF f = filename THEN path ELSE mappings[f]]

\* the body of the loop over the lines of the listing
LoadLine(mappings, raw) ==
    LET ln == Strip(raw) IN
    IF Contains(ln, ColonBracket) /\ Contains(ln, BracketParen)
    THEN LET m == ListingMatch(ln) IN
         IF m.ok THEN Put(mappings, m.filename, m.path) ELSE mappings
    ELSE mappings

\* mappings = {}
EmptyMappings == [f \in {} |-> <<>>]

RECURSIVE LoadLines(_, _)
LoadLines(mappings, ls) ==
    IF ls = <<>> THEN mappings ELSE LoadLines(LoadLine(mappings, Head(ls)), Tail(ls))

\* load_file_mappings(): src.exists tells whether cursor_files_list.mdc exists,
\* src.readable whether it can be opened, src.lines are its lines
LoadFileMappings(src) ==
    IF ~src.exists THEN EmptyMappings
    ELSE IF ~src.readable THEN EmptyMappings
    ELSE LoadLines(EmptyMappings, src.lines)

\* the characters of the paths of the model, in code point order
CodePointOrder ==
    <<"-", ".", "/", "0", "1", "2", "3", "4", "5", "6", "7", "8", "9", "A", "B",
      "C", "D", "E", "F", "G", "H", "I", "J", "K", "L", "M", "N", "O", "P", "Q", "R",
      "S", "T", "U", "V", "W", "X", "Y", "Z", "_", "a", "b", "c", "d", "e", "f", "g",
      "h", "i", "j", "k", "l", "m", "n", "o", "p", "q", "r", "s", "t", "u", "v", "w",
      "x", "y", "z">>

Rank(c) == CHOOSE i \in 1..Len(CodePointOrder) : CodePointOrder[i] = c

RECURSIVE StrLess(_, _)
\* a < b for Python strings
StrLess(a, b) ==
    IF b = <<>> THEN FALSE
    ELSE IF a = <<>> THEN TRUE
    ELSE IF Head(a) = Head(b) THEN StrLess(Tail(a), Tail(b))
    ELSE Rank(Head(a)) < Rank(Head(b))

RECURSIVE InsertPath(_, _)
InsertPath(f, sorted) ==
    IF sorted = <<>> THEN <<f>>
    ELSE IF StrLess(f, Head(sorted)) THEN <<f>> \o sorted
    ELSE <<Head(sorted)>> \o InsertPath(f, Tail(sorted))

RECURSIVE SortPaths(_)
\* files.sort()
SortPaths(fs) == IF fs = <<>> THEN <<>> ELSE InsertPath(Head(fs), SortPaths(Tail(fs)))

ListName ==
    <<"c", "u", "r", "s", "o", "r", "_", "f", "i", "l", "e", "s", "_", "l", "i", "s",
      "t", ".", "m", "d", "c">>

ScriptsDir == <<".", "/", "s", "c", "r", "i", "p", "t", "s", "/">>

\* the filter of get_all_mdc_files
IsTarget(f) ==
    /\ Strip(f) # <<>>
    /\ ~Contains(f, ListName)
    /\ ~StartsWithStr(f, ScriptsDir)

\* get_all_mdc_files(): found.ok tells whether find ran and returned 0,
\* found.paths are the lines of its output
GetAllMdcFiles(found) ==
    IF found.ok THEN SortPaths(SelectSeq(found.paths, IsTarget)) ELSE <<>>

(***************************************************************************)
(* src/agents/_store/scripts/core/mdc_path_validator.py                    *)
(*                                                                         *)
(* os.path on POSIX, on strings.  The validator runs with the project root *)
(* as working directory (--project-root defaults to '.').                  *)
(***************************************************************************)
\* the resolved project root, Path(project_root).resolve()
ProjectRoot == <<"/", "r">>

RECURSIVE RFindFrom(_, _, _)
\* offset of the last c in s before offset i, or -1
RFindFrom(s, c, i) ==
    IF i <= 0 THEN -1
    ELSE IF s[i] = c THEN i - 1
    ELSE RFindFrom(s, c, i - 1)

\* s.rfind(c)
RFind(s, c) == RFindFrom(s, c, Len(s))

RECURSIVE RStripSlash(_)
\* s.rstrip('/')
RStripSlash(s) ==
    IF Len(s) > 0 /\ s[Len(s)] = "/" THEN RStripSlash(SubSeq(s, 1, Len(s) - 1)) ELSE s

\* os.path.isabs
IsAbs(p) == StartsWith(p, "/")

\* os.path.basename
Basename(p) == Suffix(p, RFind(p, "/") + 1)

\* os.path.dirname: the head up to the last slash, without trailing slashes unless
\* it is made of slashes only
Dirname(p) ==
    LET head == Prefix(p, RFind(p, "/") + 1) IN
    IF head # <<>> /\ RStripSlash(head) # <<>> THEN RStripSlash(head) ELSE head

\* os.path.join(a, b)
JoinPath(a, b) ==
    IF IsAbs(b) THEN b
    ELSE IF a = <<>> \/ a[Len(a)] = "/" THEN a \o b
    ELSE a \o <<"/">> \o b

RECURSIVE SplitSlash(_)
\* s.split('/')
SplitSlash(s) ==
    LET i == FindFrom(s, "/", 0) IN
    IF i < 0 THEN <<s>> ELSE <<Prefix(s, i)>> \o SplitSlash(Suffix(s, i + 1))

RECURSIVE JoinSlash(_)
\* '/'.join(comps)
JoinSlash(comps) ==
    IF comps = <<>> THEN <<>>
    ELSE IF Len(comps) = 1 THEN comps[1]
    ELSE comps[1] \o <<"/">> \o JoinSlash(Tail(comps))

DotDot == <<".", ".">>

RECURSIVE NormComps(_, _, _)
\* the loop of os.path.normpath over the components
NormComps(comps, new, rooted) ==
    IF comps = <<>> THEN new
    ELSE LET comp == Head(comps) IN
         IF comp = <<>> \/ comp = <<".">> THEN NormComps(Tail(comps), new, rooted)
         ELSE IF \/ comp # DotDot
                 \/ (~rooted /\ new = <<>>)
                 \/ (new # <<>> /\ new[Len(new)] = DotDot)
         THEN NormComps(Tail(comps), Append(new, comp), rooted)
         ELSE IF new # <<>>
         THEN NormComps(Tail(comps), SubSeq(new, 1, Len(new) - 1), rooted)
         ELSE NormComps(Tail(comps), new, rooted)

\* os.path.normpath: exactly two leading slashes are kept, three or more become one
NormPath(p) ==
    IF p = <<>> THEN <<".">>
    ELSE LET slashes == IF ~IsAbs(p) THEN <<>>
                        ELSE IF Prefix(p, 2) = <<"/", "/">> /\ Prefix(p, 3) # <<"/", "/", "/">>
                        THEN <<"/", "/">>
                        ELSE <<"/">>
             body == JoinSlash(NormComps(SplitSlash(p), <<>>, IsAbs(p)))
         IN  IF slashes \o body = <<>> THEN <<".">> ELSE slashes \o body

\* os.path.abspath, the working directory being the project root
AbsPath(p) == NormPath(JoinPath(ProjectRoot, p))

\* the non-empty components of an absolute path
PathList(p) == SelectSeq(SplitSlash(AbsPath(p)), LAMBDA x : x # <<>>)

RECURSIVE CommonLen(_, _)
\* len(os.path.commonprefix([a, b])) over component lists
CommonLen(a, b) ==
    IF a = <<>> \/ b = <<>> \/ Head(a) # Head(b) THEN 0
    ELSE 1 + CommonLen(Tail(a), Tail(b))

\* os.path.relpath(path, start)
RelPath(path, start) ==
    LET start_list == PathList(start)
        path_list == PathList(path)
        i == CommonLen(start_list, path_list)
        rel == [k \in 1..(Len(start_list) - i) |-> DotDot]
                   \o SubSeq(path_list, i + 1, Len(path_list))
    IN  IF rel = <<>> THEN <<".">> ELSE JoinSlash(rel)

\* an absolute path of the project, as find and os.walk print it
Abs(rel) == JoinPath(ProjectRoot, rel)

RECURSIVE Ancestors(_)
\* the directories above an absolute path, up to /
Ancestors(p) ==
    IF Dirname(p) = p THEN {p} ELSE {Dirname(p)} \cup Ancestors(Dirname(p))

\* os.path.exists(p) for a normalised p: a file of the project fs, or a directory
\* on the way to one, or the project root
Exists(fs, p) ==
    LET a == AbsPath(p) IN
    \/ a = ProjectRoot
    \/ a \in Ancestors(ProjectRoot)
    \/ \E f \in DOMAIN fs : a = Abs(f) \/ a \in Ancestors(Abs(f))

\* s.endswith(suffix)
EndsWithStr(s, suffix) == Len(s) >= Len(suffix) /\ Suffix(s, Len(s) - Len(suffix)) = suffix

DotMdc == <<".", "m", "d", "c">>

DotMd == <<".", "m", "d">>

DotJson == <<".", "j", "s", "o", "n">>

NodeModules == <<"n", "o", "d", "e", "_", "m", "o", "d", "u", "l", "e", "s">>

DotGit == <<".", "g", "i", "t">>

PyCache == <<"_", "_", "p", "y", "c", "a", "c", "h", "e", "_", "_">>

\* the directories a file of the project lives in, outermost first
DirsOf(rel) == LET comps == SplitSlash(rel) IN SubSeq(comps, 1, Len(comps) - 1)

InDir(rel, names) == \E i \in 1..Len(DirsOf(rel)) : DirsOf(rel)[i] \in names

\* the find command of scan_project_files: -name *.mdc, *.md or *.json, not under
\* node_modules or .git, name not starting with a dot
IsScanned(rel) ==
    /\ \E ext \in {DotMdc, DotMd, DotJson} : EndsWithStr(Basename(rel), ext)
    /\ ~InDir(rel, {NodeModules, DotGit})
    /\ ~StartsWith(Basename(rel), ".")

\* the os.walk loop of validate_all_mdc_files: .mdc files outside .git,
\* node_modules and __pycache__
IsWalked(rel) ==
    /\ EndsWithStr(Basename(rel), DotMdc)
    /\ ~InDir(rel, {DotGit, NodeModules, PyCache})

\* the sequences without repetition over the set S
Perms(S) ==
    { f \in [1..Cardinality(S) -> S] :
          \A i, j \in 1..Cardinality(S) : f[i] = f[j] => i = j }

\* the directories of the files of S, as component sequences
DirsIn(S) == UNION { { SubSeq(DirsOf(f), 1, n) : n \in 0..Len(DirsOf(f)) } : f \in S }

Under(f, dir) == Len(DirsOf(f)) >= Len(dir) /\ SubSeq(DirsOf(f), 1, Len(dir)) = dir

\* the files under one directory come out next to each other
Contiguous(o, dir) ==
    \A i, j, k \in 1..Len(o) :
        (i < j /\ j < k /\ Under(o[i], dir) /\ Under(o[k], dir)) => Under(o[j], dir)

\* find descends into a directory when it meets it
FindOrdersOf(S) == { o \in Perms(S) : \A dir \in DirsIn(S) : Contiguous(o, dir) }

\* os.walk is top-down: the files of a directory come before the files of its
\* subdirectories
WalkOrders(S) ==
    { o \in FindOrdersOf(S) :
          \A i, j \in 1..Len(o) :
              (Under(o[j], DirsOf(o[i])) /\ DirsOf(o[j]) # DirsOf(o[i])) => i < j }

\* the path of the listing below the project root
CoreListing ==
    <<"a", "g", "e", "n", "t", "s", "/", "_", "s", "t", "o", "r", "e", "/", "p", "r",
      "o", "j", "e", "c", "t", "s", "/", "_", "c", "o", "r", "e", "/", "r", "u", "l",
      "e", "s", "/", "0", "0", "_", "_", "T", "O", "O", "L", "S", "/">> \o ListName

RECURSIVE SplitLines(_)
\* for line in f: the lines of a text, each with its terminator
SplitLines(text) ==
    LET i == FindFrom(text, "\n", 0) IN
    IF text = <<>> THEN <<>>
    ELSE IF i < 0 THEN <<text>>
    ELSE <<Prefix(text, i + 1)>> \o SplitLines(Suffix(text, i + 1))

\* load_existing_mappings(): the listing is parsed as load_file_mappings parses it;
\* nothing is loaded when it is missing or cannot be opened
LoadExistingMappings(fs, readable) ==
    IF CoreListing \notin DOMAIN fs THEN EmptyMappings
    ELSE IF ~readable THEN EmptyMappings
    ELSE LoadLines(EmptyMappings, SplitLines(fs[CoreListing]))

RECURSIVE ScanFiles(_, _)
\* the loop of scan_project_files over the output of find
ScanFiles(valid, files) ==
    IF files = <<>> THEN valid
    ELSE LET rel_path == RelPath(Head(files), ProjectRoot)
             filename == Basename(Head(files))
         IN  ScanFiles(Put(Put(valid, filename, rel_path), rel_path, rel_path),
                       Tail(files))

\* calculate_relative_path: both branches call os.path.relpath(to_file, from_dir),
\* which raises ValueError for an empty to_file
CalculateRelativePath(from_file, to_file) ==
    IF to_file = <<>> THEN to_file ELSE RelPath(to_file, Dirname(from_file))

\* \[([^\]]+)\]\(([^)]+)\)
link_pattern ==
    <<Lit("["), Not({"]"}, 1, -1), Lit("]"), Lit("("), Not({")"}, 1, -1), Lit(")")>>

\* find_markdown_links: (full_match, link_text, link_path) of every match
FindMarkdownLinks(text) ==
    LET ms == FindIter(link_pattern, text, 0) IN
    [i \in 1..Len(ms) |->
        [full_match |-> Group0(text, ms[i]),
         link_text |-> Group(text, ms[i], 2, 2),
         link_path |-> Group(text, ms[i], 5, 5)]]

ExternalPrefixes ==
    { <<"h", "t", "t", "p", ":", "/", "/">>, <<"h", "t", "t", "p", "s", ":", "/", "/">>,
      <<"m", "a", "i", "l", "t", "o", ":">>, <<"#">> }

SpecialPrefixes == { <<"m", "d", "c", ":">>, <<"f", "i", "l", "e", ":">> }

RECURSIVE ValidateLinkPath(_, _, _, _)
\* validate_link_path(link_path, current_file), with self.valid_files = valid
ValidateLinkPath(valid, fs, link_path, current_file) ==
    IF \E x \in ExternalPrefixes : StartsWithStr(link_path, x)
    THEN [is_valid |-> TRUE, path |-> link_path]
    ELSE IF \E x \in SpecialPrefixes : StartsWithStr(link_path, x)
    THEN ValidateLinkPath(valid, fs, Suffix(link_path, FindFrom(link_path, ":", 0) + 1),
                          current_file)
    ELSE LET current_dir == Dirname(current_file)
             target_path == NormPath(IF IsAbs(link_path) THEN link_path
                                     ELSE JoinPath(current_dir, link_path))
             filename == Basename(link_path)
         IN  IF Exists(fs, target_path)
             THEN [is_valid |-> TRUE,
                   path |-> CalculateRelativePath(current_file,
                                                  RelPath(target_path, ProjectRoot))]
             ELSE IF filename \in DOMAIN valid
             THEN [is_valid |-> TRUE,
                   path |-> CalculateRelativePath(current_file, valid[filename])]
             ELSE [is_valid |-> FALSE, path |-> link_path]

RECURSIVE FirstOccurrence(_, _, _, _)
\* the least offset in lo..hi at which old stands in s, when there is one: found by
\* halving lo..hi
FirstOccurrence(s, old, lo, hi) ==
    IF lo >= hi THEN hi
    ELSE IF \E q \in lo..((lo + hi) \div 2) : Slice(s, q, q + Len(old)) = old
    THEN FirstOccurrence(s, old, lo, (lo + hi) \div 2)
    ELSE FirstOccurrence(s, old, (lo + hi) \div 2 + 1, hi)

RECURSIVE ReplaceFrom(_, _, _, _)
\* s.replace(old, new) from offset i on, for a non-empty old
ReplaceFrom(s, old, new, i) ==
    IF \A q \in i..(Len(s) - Len(old)) : Slice(s, q, q + Len(old)) # old THEN Suffix(s, i)
    ELSE LET q == FirstOccurrence(s, old, i, Len(s) - Len(old))
         IN  Slice(s, i, q) \o new \o ReplaceFrom(s, old, new, q + Len(old))

\* s.replace(old, new): every occurrence, left to right
Replace(s, old, new) == ReplaceFrom(s, old, new, 0)

(***************************************************************************)
(* src/agents/_store/projects/_core/rules/01__AI-RUN: fix_paths.py,        *)
(* final_fix.py, fix_paths_comprehensive.py.  Each applies a sequence of   *)
(* re.sub and str.replace to the text of a file.                           *)
(***************************************************************************)
\* 'agents/_store/projects/_core/'
CorePrefix ==
    <<"a", "g", "e", "n", "t", "s", "/", "_", "s", "t", "o", "r", "e", "/", "p", "r",
    "o", "j", "e", "c", "t", "s", "/", "_", "c", "o", "r", "e", "/">>

\* 'agents/_store/projects/_core/rules/01__AI-RUN/'
AiRunPrefix ==
    <<"a", "g", "e", "n", "t", "s", "/", "_", "s", "t", "o", "r", "e", "/", "p", "r",
    "o", "j", "e", "c", "t", "s", "/", "_", "c", "o", "r", "e", "/", "r", "u", "l", "e",
    "s", "/", "0", "1", "_", "_", "A", "I", "-", "R", "U", "N", "/">>

\* 'agents/_store/project-memory/'
MemoryPrefix ==
    <<"a", "g", "e", "n", "t", "s", "/", "_", "s", "t", "o", "r", "e", "/", "p", "r",
    "o", "j", "e", "c", "t", "-", "m", "e", "m", "o", "r", "y", "/">>

\* 'corrupted-backup'
CorruptedBackup ==
    <<"c", "o", "r", "r", "u", "p", "t", "e", "d", "-", "b", "a", "c", "k", "u", "p">>

\* a piece of a replacement template: a literal text, or the group that spans
\* items a..b of the pattern
Text(t) == [lit |-> TRUE, text |-> t, a |-> 0, b |-> 0]

Ref(a, b) == [lit |-> FALSE, text |-> <<>>, a |-> a, b |-> b]

RECURSIVE Expand(_, _, _)
\* match.expand(template)
Expand(s, m, tmpl) ==
    IF tmpl = <<>> THEN <<>>
    ELSE (IF Head(tmpl).lit THEN Head(tmpl).text
          ELSE Group(s, m, Head(tmpl).a, Head(tmpl).b)) \o Expand(s, m, Tail(tmpl))

RECURSIVE SubMatches(_, _, _, _, _)
\* the text from offset pos on, matches ms[k..] replaced
SubMatches(s, ms, tmpl, k, pos) ==
    IF k > Len(ms) THEN Suffix(s, pos)
    ELSE Slice(s, pos, ms[k].start) \o Expand(s, ms[k], tmpl)
             \o SubMatches(s, ms, tmpl, k + 1, ms[k].end)

\* re.sub(pat, tmpl, s)
ReSub(pat, tmpl, s) == SubMatches(s, FindIter(pat, s, 0), tmpl, 1, 0)

\* \[([^]]+\.mdc)\]   group 1 is items 2..6
MdcLinkText == <<Lit("["), Not({"]"}, 1, -1)>> \o Lits(DotMdc) \o <<Lit("]")>>

\* \[([^]]+\.mdc)\]\(\.\./([^)]+)\)   group 2 is item 12
parent_pattern ==
    MdcLinkText \o <<Lit("("), Lit("."), Lit("."), Lit("/"), Not({")"}, 1, -1), Lit(")")>>

\* [\1](agents/_store/projects/_core/\2)
parent_template ==
    <<Text(<<"[">>), Ref(2, 6), Text(<<"]", "(">> \o CorePrefix), Ref(12, 12),
      Text(<<")">>)>>

\* \[([^]]+\.mdc)\]\(([^/][^)]*\.mdc)\)   group 2 is items 9..14
same_dir_pattern ==
    MdcLinkText \o <<Lit("("), Not({"/"}, 1, 1), Not({")"}, 0, -1)>> \o Lits(DotMdc)
        \o <<Lit(")")>>

\* [\1](agents/_store/projects/_core/rules/01__AI-RUN/\2)
same_dir_template ==
    <<Text(<<"[">>), Ref(2, 6), Text(<<"]", "(">> \o AiRunPrefix), Ref(9, 14),
      Text(<<")">>)>>

\* the substitutions of fix_file_paths: pattern 1, pattern 2, pattern 3
FixFilePaths(text) ==
    LET c1 == ReSub(parent_pattern, parent_template, text)
        c2 == ReSub(same_dir_pattern, same_dir_template, c1)
    IN  ReSub(same_dir_pattern, same_dir_template, c2)

\* \[(\.\./[^]]+\.mdc)\]\(([^)]+\.mdc)\)   group 1 is items 2..9, group 2 items 12..16
parent_text_pattern ==
    <<Lit("["), Lit("."), Lit("."), Lit("/"), Not({"]"}, 1, -1)>> \o Lits(DotMdc)
        \o <<Lit("]"), Lit("("), Not({")"}, 1, -1)>> \o Lits(DotMdc) \o <<Lit(")")>>

\* [\1](agents/_store/projects/_core/\2)
parent_text_template ==
    <<Text(<<"[">>), Ref(2, 9), Text(<<"]", "(">> \o CorePrefix), Ref(12, 16),
      Text(<<")">>)>>

\* the directories that are moved out of rules/01__AI-RUN/, each with where it goes
Moved ==
    << <<<<"p", "r", "o", "j", "e", "t", "/">>, CorePrefix>>,
       <<<<"0", "2", "_", "_", "A", "I", "-", "D", "O", "C", "S", "/">>,
         CorePrefix \o <<"r", "u", "l", "e", "s", "/">>>>,
       <<<<"0", "3", "_", "_", "S", "P", "E", "C", "S", "/">>,
         CorePrefix \o <<"r", "u", "l", "e", "s", "/">>>>,
       <<<<"t", "a", "s", "k", "s", "/">>, CorePrefix>> >>

RECURSIVE MoveOut(_, _)
\* the four replacements of the moved directories, in order
MoveOut(text, k) ==
    IF k > Len(Moved) THEN text
    ELSE MoveOut(Replace(text, AiRunPrefix \o Moved[k][1], Moved[k][2] \o Moved[k][1]),
                 k + 1)

\* the substitutions of fix_all_paths
FixAllPaths(text) ==
    LET c1 == ReSub(parent_text_pattern, parent_text_template, text)
        c2 == ReSub(same_dir_pattern, same_dir_template, c1)
        c3 == MoveOut(c2, 1)
    IN  Replace(c3, <<"]", "(", "m", "d", "c", ":">> \o CorePrefix,
                <<"]", "(">> \o CorePrefix)

\* agents/_store/project-memory/corrupted-backup-[^)]+\)
backup_path_pattern ==
    Lits(MemoryPrefix \o CorruptedBackup \o <<"-">>) \o <<Not({")"}, 1, -1), Lit(")")>>

\* \[([^]]+\.mdc)\]\(agents/_store/project-memory/[^)]+\)
memory_link_pattern ==
    MdcLinkText \o <<Lit("(")>> \o Lits(MemoryPrefix) \o <<Not({")"}, 1, -1), Lit(")")>>

\* \[([^]]+\.mdc)\]\([^)]*corrupted-backup[^)]*\)
corrupted_link_pattern ==
    MdcLinkText \o <<Lit("("), Not({")"}, 0, -1)>> \o Lits(CorruptedBackup)
        \o <<Not({")"}, 0, -1), Lit(")")>>

\* \[([^]]+\.mdc)\]\(\)
empty_link_pattern == MdcLinkText \o <<Lit("("), Lit(")")>>

\* [\1]
bracket_template == <<Text(<<"[">>), Ref(2, 6), Text(<<"]">>)>>

\* the substitutions of comprehensive_path_fix
ComprehensivePathFix(text) ==
    LET c1 == ReSub(backup_path_pattern, <<>>, text)
        c2 == Replace(c1, AiRunPrefix \o CorePrefix, CorePrefix)
        c3 == ReSub(memory_link_pattern, bracket_template, c2)
        c4 == ReSub(corrupted_link_pattern, bracket_template, c3)
        c5 == ReSub(parent_pattern, parent_template, c4)
        c6 == ReSub(same_dir_pattern, same_dir_template, c5)
        c7 == MoveOut(c6, 1)
    IN  ReSub(empty_link_pattern, <<Text(<<Backtick>>), Ref(2, 6), Text(<<Backtick>>)>>,
              c7)

(***************************************************************************)
(* process_file of the three scripts, as one state machine.                *)
(***************************************************************************)
Scripts == {"main", "backup", "cursor"}

Detect(sc, ln, n) ==
    CASE sc = "main" -> DetectMain(ln, n)
      [] sc = "backup" -> DetectBackup(ln, n)
      [] sc = "cursor" -> DetectCursor(ln, n)

\* the order in which the fix loop of each script visits the matches
FixOrder(sc, ps) ==
    CASE sc = "main" -> SortedPatterns(ps)
      [] sc = "backup" -> LinePatternsBackup(ps)
      [] sc = "cursor" -> SortedPatterns(ps)

FixOne(sc, st, p, reg) ==
    CASE sc = "main" -> FixOneMain(st, p, reg)
      [] sc = "backup" -> FixOneBackup(st, p, reg)
      [] sc = "cursor" -> FixOneCursor(st, p, reg)

\* fix(line, detect(line), file_mappings): what one pass makes of a line
Rewrite(sc, ln, n, reg) ==
    CASE sc = "main" -> FixLineMain(ln, DetectMain(ln, n), reg)
      [] sc = "backup" -> FixLineBackup(ln, DetectBackup(ln, n), reg)
      [] sc = "cursor" -> FixLineCursor(ln, DetectCursor(ln, n), reg)

\* what process_file returns when it has nothing to report
Nothing(sc) == IF sc = "cursor" THEN FALSE ELSE 0

(***************************************************************************)
(* Inputs.  A file is a sequence of lines, each ending with a newline      *)
(* except, possibly, the last.  It holds one line made of at most          *)
(* MaxFragments fragments of links, or one scenario line, or up to         *)
(* MaxFileLines lines of text, broken links and corrected links.           *)
(***************************************************************************)
MaxFragments == 2

MaxFileLines == 2

FileName == <<"a", "b", ".", "m", "d", "c">>

OtherName == <<"z", ".", "m", "d", "c">>

CanonicalPath == <<"d", "/", "a", "b", ".", "m", "d", "c">>

\* the path of a file that lives in a directory named [i]
BracketPath == <<"[", "i", "]">>

\* [ab.mdc](p)
Link == Replacement(FileName, <<"p">>)

\* [[ab.mdc](p)
DoubleSquareLink == <<"[">> \o Link

Fragments ==
    { DoubleSquareLink,
      Link,
      <<"]", "(", "p", ")">>,                  \* ](p)
      <<"[">> \o FileName \o <<"]", "(">>,     \* [ab.mdc](
      <<")">>,
      <<"[">>,
      <<Backtick>> }

RECURSIVE Concat(_)
Concat(ss) == IF ss = <<>> THEN <<>> ELSE Head(ss) \o Concat(Tail(ss))

FragmentLines ==
    UNION { { Concat(fs) : fs \in [1..n -> Fragments] } : n \in 1..MaxFragments }

\* [ab.mdc]([ab.mdc](p))
NestedLine == <<"[">> \o FileName \o <<"]", "(">> \o Link \o <<")">>

\* [`[ab.mdc](p)`](p)
NestedBacktickLine ==
    <<"[", Backtick>> \o Link \o <<Backtick, "]", "(", "p", ")">>

\* [ab.mdc](mdc:p))
MdcDoubleParenLine ==
    <<"[">> \o FileName \o <<"]", "(", "m", "d", "c", ":", "p", ")", ")">>

\* `[ab.mdc](p)` [ab.mdc](p)](p)
InlineCodeLine ==
    <<Backtick>> \o Link \o <<Backtick, " ">> \o Link \o <<"]", "(", "p", ")">>

\* [ab.mdc](d/ab.mdc)
CorrectedLine == Replacement(FileName, CanonicalPath)

\* [ab.mdc]([i])
BracketPathLine == Replacement(FileName, BracketPath)

\* .cursor/rules/x/ab.mdc mdc:ab.mdc `ab.mdc`
BarePathsLine ==
    <<".", "c", "u", "r", "s", "o", "r", "/", "r", "u", "l", "e", "s", "/", "x", "/">>
        \o FileName \o <<" ", "m", "d", "c", ":">> \o FileName
        \o <<" ", Backtick>> \o FileName \o <<Backtick>>

\* See ab.mdc.
PlainLine == <<"S", "e", "e", " ">> \o FileName \o <<".">>

ScenarioLines ==
    {NestedLine, NestedBacktickLine, MdcDoubleParenLine, InlineCodeLine, CorrectedLine,
     BracketPathLine, PlainLine, BarePathsLine}

TextLines == {PlainLine, DoubleSquareLink, CorrectedLine}

Newline == <<"\n">>

Files ==
    { <<b \o Newline>> : b \in FragmentLines }
        \cup { <<b \o nl>> : b \in ScenarioLines, nl \in {<<>>, Newline} }
        \cup UNION { { [i \in 1..n |-> f[i] \o Newline] : f \in [1..n -> TextLines] } :
                     n \in 2..MaxFileLines }

\* main() stops before process_file when the registry is empty
Registries ==
    { [f \in {FileName} |-> CanonicalPath],
      [f \in {OtherName} |-> CanonicalPath],
      [f \in {FileName} |-> BracketPath] }

(***************************************************************************)
(* Inputs of main(): the registry listing cursor_files_list.mdc, of at     *)
(* most MaxListingLines lines, and a project tree of at most MaxRunFiles   *)
(* .mdc files.                                                             *)
(***************************************************************************)
MaxListingLines == 2

MaxRunFiles == 2

OtherPath == <<"e", "/", "a", "b", ".", "m", "d", "c">>

\* the path of a file that lives in a directory named (g)
ParenPath == <<"d", "/", "(", "g", ")", "/", "a", "b", ".", "m", "d", "c">>

\* f : [g](p)
ListingLine(f, g, p) == f \o ColonBracket \o g \o BracketParen \o p \o <<")">> \o Newline

ListingNames == {FileName, OtherName}

ListingPaths == {CanonicalPath, OtherPath, ParenPath}

ListingLines ==
    { ListingLine(FileName, FileName, CanonicalPath),
      ListingLine(FileName, FileName, OtherPath),
      <<" ", " ">> \o ListingLine(OtherName, OtherName, CanonicalPath),
      ListingLine(FileName, FileName, ParenPath),
      ListingLine(FileName, OtherName, CanonicalPath),
      <<"#", " ", "F", "i", "l", "e", "s">> \o Newline,             \* # Files
      FileName \o ColonBracket \o FileName \o BracketParen \o Newline }  \* cut short

ListingFile(ls) == [exists |-> TRUE, readable |-> TRUE, lines |-> ls]

MissingListing == [exists |-> FALSE, readable |-> FALSE, lines |-> <<>>]

UnreadableListing == [exists |-> TRUE, readable |-> FALSE, lines |-> <<>>]

GoodListing == ListingFile(<<ListingLine(FileName, FileName, CanonicalPath)>>)

Listings ==
    {MissingListing, UnreadableListing}
        \cup UNION { { ListingFile(ls) : ls \in [1..n -> ListingLines] } :
                     n \in 0..MaxListingLines }

PathA == <<".", "/", "a", ".", "m", "d", "c">>

PathB == <<".", "/", "b", ".", "m", "d", "c">>

\* a file the filter of get_all_mdc_files leaves out
PathInScripts == ScriptsDir \o <<"c", ".", "m", "d", "c">>

\* the listing itself, which the filter leaves out as well
PathOfList == <<".", "/">> \o ListName

RunPaths == {PathA, PathB, PathInScripts, PathOfList}

RunContents == { <<PlainLine \o Newline>>, <<DoubleSquareLink \o Newline>> }

Trees ==
    UNION { [S -> RunContents] : S \in { T \in SUBSET RunPaths : Cardinality(T) <= MaxRunFiles } }

OneFileTree == [p \in {PathA} |-> <<DoubleSquareLink \o Newline>>]

\* the orders in which find can list the files of S
FindOrders(S) ==
    { f \in [1..Cardinality(S) -> S] :
          \A i, j \in 1..Cardinality(S) : f[i] = f[j] => i = j }

\* main() is not running
MainIdle ==
    /\ main_pc = "off"
    /\ listing = MissingListing
    /\ tree = <<>>
    /\ files_to_process = <<>>
    /\ file_index = 0
    /\ total_files_fixed = 0
    /\ run_total_fixes = 0
    /\ outcomes = <<>>

(***************************************************************************)
(* Inputs of MDCPathValidator: a project whose file under test holds up to *)
(* MaxLinks pieces of links, or a project with a listing of at most        *)
(* MaxListingLines lines and files that share a name.  At most MaxIOErrors  *)
(* of the files fail to open in one run.                                   *)
(***************************************************************************)
MaxLinks == 2

MaxIOErrors == 1

\* t.mdc, the file under test, at the root or in the directory c
TestName == <<"t", ".", "m", "d", "c">>

TestPaths == { TestName, <<"c", "/">> \o TestName }

\* [ab.mdc](ab.mdc)
NameOnlyLink == Replacement(FileName, FileName)

\* [m](no.mdc)
MissingLink == Replacement(<<"m">>, <<"n", "o">> \o DotMdc)

\* [x]([ab.mdc](ab.mdc)   a link that is not closed, around a link
UnclosedLink == <<"[", "x", "]", "(">> \o NameOnlyLink

\* [t](#t)
AnchorLink == Replacement(<<"t">>, <<"#", "t">>)

\* [a](mdc:ab.mdc)
MdcPrefixLink == Replacement(<<"a">>, <<"m", "d", "c", ":">> \o FileName)

\* [b](./d/../d/ab.mdc)
DottedLink ==
    Replacement(<<"b">>, <<".", "/", "d", "/", ".", ".", "/">> \o CanonicalPath)

LinkPieces ==
    {NameOnlyLink, CorrectedLine, MissingLink, UnclosedLink, AnchorLink, MdcPrefixLink,
     DottedLink}

Contents ==
    UNION { { Concat(ps) \o Newline : ps \in [1..n -> LinkPieces] } : n \in 0..MaxLinks }

\* one function out of path -> text pairs
FileSystem(pairs) ==
    [p \in { x[1] : x \in pairs } |-> (CHOOSE x \in pairs : x[1] = p)[2]]

\* the file under test with the text c, next to d/ab.mdc
LinkProjects ==
    { FileSystem({<<t, c>>, <<CanonicalPath, <<>>>>}) : t \in TestPaths, c \in Contents }

ValidatorListingLines ==
    { ListingLine(FileName, FileName, OtherPath),
      ListingLine(OtherName, OtherName, CanonicalPath),
      <<"#", " ", "F", "i", "l", "e", "s">> \o Newline }

ValidatorListings ==
    UNION { { Concat(ls) : ls \in [1..n -> ValidatorListingLines] } :
            n \in 0..MaxListingLines }

\* files next to t.mdc: one ab.mdc, two of them, one below node_modules, a .md file
Neighbours ==
    { {<<CanonicalPath, <<>>>>},
      {<<CanonicalPath, <<>>>>, <<OtherPath, <<>>>>},
      {<<NodeModules \o <<"/">> \o FileName, <<>>>>},
      {<<CanonicalPath, <<>>>>, <<<<"d", "/", "n">> \o DotMd, NameOnlyLink>>} }

\* t.mdc holding [ab.mdc](ab.mdc)
TestFile == <<TestName, NameOnlyLink \o Newline>>

\* t.mdc and its neighbours, without a listing or with one that names e/ab.mdc;
\* t.mdc and d/ab.mdc with every listing
ListingProjects ==
    { FileSystem({TestFile} \cup ns \cup ls) :
          ns \in Neighbours,
          ls \in { {}, {<<CoreListing, ListingLine(FileName, FileName, OtherPath)>>} } }
        \cup { FileSystem({TestFile, <<CanonicalPath, <<>>>>, <<CoreListing, l>>}) :
                  l \in ValidatorListings }

Projects == LinkProjects \cup ListingProjects

\* results = {...} at the start of fix_file_links
NewResults(file_path) ==
    [file |-> file_path, links_found |-> 0, links_fixed |-> 0, broken_links |-> <<>>,
     fixes_applied |-> <<>>, error |-> FALSE]

\* all_results = {...} of validate_all_mdc_files
NewAllResults(n) ==
    [total_files |-> n, files_processed |-> 0, total_links_found |-> 0,
     total_links_fixed |-> 0, total_broken_links |-> 0, file_results |-> <<>>]

\* no validator has been constructed
ValidatorIdle ==
    /\ v_pc = "off"
    /\ project = <<>>
    /\ dry_run = TRUE
    /\ valid_files = EmptyMappings
    /\ mdc_files = <<>>
    /\ content = <<>>
    /\ original_content = <<>>
    /\ links = <<>>
    /\ link_index = 0
    /\ results = NewResults(<<>>)
    /\ all_results = NewAllResults(0)
    /\ v_writes = <<>>

(***************************************************************************)
(* Inputs of the 01__AI-RUN scripts: the .mdc files of the working         *)
(* directory.  One file of up to MaxLinks pieces, or several files; main   *)
(* is run up to MaxPasses times over the same directory.                   *)
(***************************************************************************)
MaxPasses == 3

FixScripts == {"fix_paths", "final_fix", "comprehensive"}

\* f.mdc
LinkedName == <<"f">> \o DotMdc

\* [f.mdc](f.mdc)
SameDirLink == Replacement(LinkedName, LinkedName)

\* [f.mdc](agents/_store/projects/_core/rules/01__AI-RUN/f.mdc)
TargetLink == Replacement(LinkedName, AiRunPrefix \o LinkedName)

\* [f.mdc](../x/f.mdc)
ParentLink == Replacement(LinkedName, <<".", ".", "/", "x", "/">> \o LinkedName)

\* [../x/f.mdc](x/f.mdc)
ParentTextLink ==
    Replacement(<<".", ".", "/", "x", "/">> \o LinkedName, <<"x", "/">> \o LinkedName)

\* [f.mdc](/f.mdc)
RootedLink == Replacement(LinkedName, <<"/">> \o LinkedName)

\* [f.mdc](tasks/f.mdc)
TasksLink == Replacement(LinkedName, <<"t", "a", "s", "k", "s", "/">> \o LinkedName)

\* [f.mdc]()
EmptyLink == Replacement(LinkedName, <<>>)

FixPieces ==
    {SameDirLink, TargetLink, ParentLink, ParentTextLink, RootedLink, TasksLink,
     EmptyLink, PlainLine}

FixContents ==
    UNION { { Concat(ps) \o Newline : ps \in [1..n -> FixPieces] } : n \in 0..MaxLinks }

AName == <<"a">> \o DotMdc

BName == <<"b">> \o DotMdc

\* 00_x.mdc, which main leaves out
SkippedName == <<"0", "0", "_", "x">> \o DotMdc

\* n.md, which glob('*.mdc') does not list
OtherKindName == <<"n">> \o DotMd

\* a.mdc alone with every text; a.mdc and b.mdc next to files main does not take
Folders ==
    { [f \in {AName} |-> c] : c \in FixContents }
        \cup { [f \in {AName, BName, SkippedName, OtherKindName} |->
                   IF f = AName THEN c1 ELSE IF f = BName THEN c2 ELSE SameDirLink]
               : c1, c2 \in {SameDirLink \o Newline, PlainLine \o Newline} }

\* none of the 01__AI-RUN scripts is running
FixIdle ==
    /\ fix_script = "fix_paths"
    /\ fix_pc = "off"
    /\ folder = <<>>
    /\ fix_files = <<>>
    /\ fix_index = 0
    /\ fix_content = <<>>
    /\ fix_original = <<>>
    /\ fix_written = <<>>
    /\ fix_error = "none"
    /\ passes = 0

(***************************************************************************)
(* The scripts that write the listing: src/scripts/update_cursor_rules_    *)
(* files.py, src/agents/_store/scripts/update_file_list.py and the         *)
(* update_core_files_list.py of src/backups/scripts-migration-...          *)
(* /original-scripts.  An entry is None or a text.                         *)
(***************************************************************************)
None == [none |-> TRUE, text |-> <<>>]

Entry(text) == [none |-> FALSE, text |-> text]

\* f"{filename} : [{filename}]({link_path})"
FormattedEntry(filename, link_path) ==
    Entry(filename \o ColonBracket \o filename \o BracketParen \o link_path \o <<")">>)

\* '00__TOOLS/'
ToolsDir ==
    <<"0", "0", "_", "_", "T", "O", "O", "L", "S", "/">>

\* 'rules/'
RulesDir == <<"r", "u", "l", "e", "s", "/">>

\* 'core_files_list.mdc'
CoreListName ==
    <<"c", "o", "r", "e", "_", "f", "i", "l", "e", "s", "_", "l", "i", "s", "t", ".",
    "m", "d", "c">>

\* format_file_entry_fixed of update_cursor_rules_files.py
FormatFileEntryFixed(filepath) ==
    LET filename == Basename(filepath)
        rules_relative_path == Suffix(filepath, Len(CursorRules))
    IN  IF StartsWithStr(filepath, CursorRules)
        THEN IF rules_relative_path = ToolsDir \o ListName THEN None
             ELSE FormattedEntry(filename,
                                 IF StartsWithStr(rules_relative_path, ToolsDir)
                                 THEN Suffix(rules_relative_path, Len(ToolsDir))
                                 ELSE filepath)
        ELSE FormattedEntry(filename, filepath)

RECURSIVE LStripChars(_, _)
\* s.lstrip(chars)
LStripChars(s, chars) ==
    IF Len(s) > 0 /\ s[1] \in chars THEN LStripChars(Tail(s), chars) ELSE s

\* format_file_entry of update_file_list.py
FormatFileEntry(filepath) ==
    LET stripped == LStripChars(filepath, {".", "/"})
        clean_path == IF StartsWithStr(stripped, <<"c", "u", "r", "s", "o", "r">>)
                      THEN <<".">> \o stripped
                      ELSE stripped
    IN  FormattedEntry(Basename(filepath), clean_path)

\* format_file_entry with a single ../ for the files of _core outside rules/
FormatCoreFileEntryOneUp(filepath) ==
    LET filename == Basename(filepath)
        core_relative_path == Suffix(filepath, Len(CorePrefix))
    IN  IF StartsWithStr(filepath, CorePrefix)
        THEN IF core_relative_path = RulesDir \o ToolsDir \o CoreListName THEN None
             ELSE FormattedEntry(filename,
                      IF StartsWithStr(core_relative_path, RulesDir \o ToolsDir)
                      THEN Suffix(core_relative_path, Len(RulesDir \o ToolsDir))
                      ELSE IF StartsWithStr(core_relative_path, RulesDir)
                      THEN <<".", ".", "/">> \o Suffix(core_relative_path, Len(RulesDir))
                      ELSE <<".", ".", "/">> \o core_relative_path)
        ELSE FormattedEntry(filename, filepath)

\* format_file_entry of update_core_files_list.py
FormatCoreFileEntry(filepath) ==
    LET filename == Basename(filepath)
        core_relative_path == Suffix(filepath, Len(CorePrefix))
    IN  IF StartsWithStr(filepath, CorePrefix)
        THEN IF core_relative_path = RulesDir \o ToolsDir \o CoreListName THEN None
             ELSE FormattedEntry(filename,
                      IF StartsWithStr(core_relative_path, RulesDir \o ToolsDir)
                      THEN Suffix(core_relative_path, Len(RulesDir \o ToolsDir))
                      ELSE IF StartsWithStr(core_relative_path, RulesDir)
                      THEN <<".", ".", "/">> \o Suffix(core_relative_path, Len(RulesDir))
                      ELSE <<".", ".", "/", ".", ".", "/">> \o core_relative_path)
        ELSE FormattedEntry(filename, filepath)

ListScripts == {"cursor_rules", "file_list", "core"}

\* the function the script calls for each file find printed
FormatEntry(sc, filepath) ==
    CASE sc = "cursor_rules" -> FormatFileEntryFixed(filepath)
      [] sc = "file_list" -> FormatFileEntry(filepath)
      [] sc = "core" -> FormatCoreFileEntry(filepath)

(***************************************************************************)
(* Inputs of the listing scripts: the files find prints, at most           *)
(* MaxEntries of them, the listing itself among them when it exists.      *)
(***************************************************************************)
MaxEntries == 3

\* what find .cursor/rules can print
CursorRulesPaths ==
    { CursorRules \o p : p \in
        { <<"0", "0", "_", "_", "T", "O", "O", "L", "S", "/", "h", ".", "m", "d", "c">>,
          <<"0", "0", "_", "_", "T", "O", "O", "L", "S", "/", "c", "u", "r", "s", "o",
          "r", "_", "f", "i", "l", "e", "s", "_", "l", "i", "s", "t", ".", "m", "d",
          "c">>,
          <<"0", "0", "_", "_", "T", "O", "O", "L", "S", "/", "s", "/", "h", ".", "m",
          "d", "c">>,
          <<"x", "/", "a", ".", "m", "d", "c">>,
          <<"x", "/", "c", "u", "r", "s", "o", "r", "_", "f", "i", "l", "e", "s", "_",
          "l", "i", "s", "t", ".", "m", "d", "c">>,
          <<"a", ".", "m", "d">> } }

\* what find . can print
ProjectPaths ==
    { <<".", "/">> \o p : p \in
        { <<"a", ".", "m", "d">>,
          <<"d", "/", "a", ".", "p", "y">>,
          <<".", "c", "u", "r", "s", "o", "r", "/", "r", "u", "l", "e", "s", "/", "0",
          "0", "_", "_", "T", "O", "O", "L", "S", "/", "c", "u", "r", "s", "o", "r",
          "_", "f", "i", "l", "e", "s", "_", "l", "i", "s", "t", ".", "m", "d", "c">>,
          <<".", "c", "u", "r", "s", "o", "r", "/", "r", "u", "l", "e", "s", "/", "a",
          ".", "m", "d", "c">>,
          <<".", "g", "i", "t", "h", "u", "b", "/", "a", ".", "m", "d">>,
          <<"c", "u", "r", "s", "o", "r", ".", "m", "d">>,
          <<".", "a", ".", "j", "s", "o", "n">> } }

\* what find agents/_store/projects/_core can print
CorePaths ==
    { CorePrefix \o p : p \in
        { <<"r", "u", "l", "e", "s", "/", "0", "0", "_", "_", "T", "O", "O", "L", "S",
          "/", "h", ".", "m", "d", "c">>,
          <<"r", "u", "l", "e", "s", "/", "0", "0", "_", "_", "T", "O", "O", "L", "S",
          "/", "c", "o", "r", "e", "_", "f", "i", "l", "e", "s", "_", "l", "i", "s",
          "t", ".", "m", "d", "c">>,
          <<"r", "u", "l", "e", "s", "/", "0", "0", "_", "_", "T", "O", "O", "L", "S",
          "/", "s", "/", "h", ".", "m", "d", "c">>,
          <<"r", "u", "l", "e", "s", "/", "x", "/", "a", ".", "m", "d", "c">>,
          <<"r", "u", "l", "e", "s", "/", "a", ".", "m", "d", "c">>,
          <<"d", "/", "a", ".", "m", "d", "c">>,
          <<"a", ".", "m", "d", "c">>,
          <<"r", "u", "l", "e", "s", ".", "m", "d">> } }

\* target_file of update_cursor_files_list and of update_core_files_list
TargetPath(sc) ==
    CASE sc = "cursor_rules" -> CursorRules \o ToolsDir \o ListName
      [] sc = "file_list" -> <<".", "/">> \o CursorRules \o ToolsDir \o ListName
      [] sc = "core" -> CorePrefix \o RulesDir \o ToolsDir \o CoreListName

FoundPaths(sc) ==
    CASE sc = "cursor_rules" -> CursorRulesPaths
      [] sc = "file_list" -> ProjectPaths
      [] sc = "core" -> CorePaths

\* none of the listing scripts is running
ListIdle ==
    /\ list_script = "cursor_rules"
    /\ list_pc = "off"
    /\ find_output = {}
    /\ list_files = <<>>
    /\ list_index = 0
    /\ list_filepath = <<>>
    /\ formatted_entry = None
    /\ file_list_content = <<>>
    /\ processed_files = 0
    /\ target_file = None

ToolsIdle == FixIdle /\ ListIdle

Init ==
    /\ script \in Scripts
    /\ file_mappings \in Registries
    /\ disk \in Files
    /\ writes = 0
    /\ pc = "read"
    /\ lines = <<>>
    /\ line_number = 0
    /\ line = <<>>
    /\ broken_patterns = <<>>
    /\ sorted_patterns = <<>>
    /\ updated_line = <<>>
    /\ fixes_made = 0
    /\ updated_lines = <<>>
    /\ total_fixes = 0
    /\ total_patterns = 0
    /\ file_modified = FALSE
    /\ result = Nothing(script)
    /\ error = "none"
    /\ MainIdle
    /\ ValidatorIdle
    /\ ToolsIdle

\* with open(filepath, 'r') as f: lines = f.readlines()
ReadFile ==
    /\ pc = "read"
    /\ lines' = disk
    /\ pc' = "scan"
    /\ UNCHANGED <<script, file_mappings, disk, writes, line_number, line,
                   broken_patterns, sorted_patterns, updated_line, fixes_made,
                   updated_lines, total_fixes, total_patterns, file_modified, result>>
    /\ UNCHANGED <<error, otherVars>>

\* the read error is not caught: the exception leaves process_file and its caller
ReadErrorEscapes ==
    /\ pc = "read"
    /\ error' = "read"
    /\ pc' = "crashed"
    /\ UNCHANGED <<script, file_mappings, disk, writes, lines, line_number, line,
                   broken_patterns, sorted_patterns, updated_line, fixes_made,
                   updated_lines, total_fixes, total_patterns, file_modified, result>>
    /\ UNCHANGED otherVars

\* except Exception on the read: return 0 / False
ReadError ==
    /\ pc = "read"
    /\ result' = Nothing(script)
    /\ pc' = "done"
    /\ UNCHANGED <<script, file_mappings, disk, writes, lines, line_number, line,
                   broken_patterns, sorted_patterns, updated_line, fixes_made,
                   updated_lines, total_fixes, total_patterns, file_modified>>
    /\ error' = "read"
    /\ UNCHANGED otherVars

\* the head of the for loop: detect on the next line; a line without match is kept
\* as it is, a line with matches enters fix_broken_patterns_in_line
DetectLine ==
    /\ pc = "scan"
    /\ line_number < Len(lines)
    /\ LET raw == lines[line_number + 1]
           arg == IF script = "cursor" THEN RStripNewline(raw) ELSE raw
           ps == Detect(script, arg, line_number + 1)
       IN  /\ line' = arg
           /\ line_number' = line_number + 1
           /\ broken_patterns' = ps
           /\ total_patterns' =
                  IF script = "main" THEN total_patterns + Len(ps) ELSE total_patterns
           /\ updated_line' = arg
           /\ fixes_made' = 0
           /\ IF ps # <<>>
              THEN /\ sorted_patterns' = FixOrder(script, ps)
                   /\ pc' = "fix"
                   /\ UNCHANGED updated_lines
              ELSE /\ sorted_patterns' = <<>>
                   /\ pc' = "scan"
                   /\ updated_lines' = Append(updated_lines, raw)
    /\ UNCHANGED <<script, file_mappings, disk, writes, lines, total_fixes,
                   file_modified, result>>
    /\ UNCHANGED <<error, otherVars>>

\* one iteration of the loop of fix_broken_patterns_in_line
FixPattern ==
    /\ pc = "fix"
    /\ sorted_patterns # <<>>
    /\ LET st == FixOne(script, [line |-> updated_line, fixes |-> fixes_made],
                        Head(sorted_patterns), file_mappings)
       IN  /\ updated_line' = st.line
           /\ fixes_made' = st.fixes
    /\ sorted_patterns' = Tail(sorted_patterns)
    /\ UNCHANGED <<script, file_mappings, disk, writes, pc, lines, line_number, line,
                   broken_patterns, updated_lines, total_fixes, total_patterns,
                   file_modified, result>>
    /\ UNCHANGED <<error, otherVars>>

\* fix_broken_patterns_in_line returns; process_file appends the line
FixReturn ==
    /\ pc = "fix"
    /\ sorted_patterns = <<>>
    /\ updated_lines' =
           Append(updated_lines,
                  IF script = "cursor" THEN updated_line \o Newline ELSE updated_line)
    /\ total_fixes' = total_fixes + fixes_made
    /\ file_modified' = IF script = "cursor" THEN TRUE ELSE file_modified
    /\ pc' = "scan"
    /\ UNCHANGED <<script, file_mappings, disk, writes, lines, line_number, line,
                   broken_patterns, sorted_patterns, updated_line, fixes_made,
                   total_patterns, result>>
    /\ UNCHANGED <<error, otherVars>>

\* whether process_file goes on to open the file for writing
WillWrite ==
    CASE script = "main" -> total_patterns # 0 /\ total_fixes > 0
      [] script = "backup" -> total_fixes > 0
      [] script = "cursor" -> file_modified

\* after the loop: return without writing, or go on to write
EndOfLines ==
    /\ pc = "scan"
    /\ line_number = Len(lines)
    /\ IF WillWrite
       THEN pc' = "write" /\ UNCHANGED result
       ELSE pc' = "done" /\ result' = Nothing(script)
    /\ UNCHANGED <<script, file_mappings, disk, writes, lines, line_number, line,
                   broken_patterns, sorted_patterns, updated_line, fixes_made,
                   updated_lines, total_fixes, total_patterns, file_modified>>
    /\ UNCHANGED <<error, otherVars>>

\* with open(filepath, 'w') as f: f.writelines(...)
WriteFile ==
    /\ pc = "write"
    /\ disk' = updated_lines
    /\ writes' = writes + 1
    /\ result' = IF script = "cursor" THEN TRUE ELSE total_fixes
    /\ pc' = "done"
    /\ UNCHANGED <<script, file_mappings, lines, line_number, line, broken_patterns,
                   sorted_patterns, updated_line, fixes_made, updated_lines,
                   total_fixes, total_patterns, file_modified>>
    /\ UNCHANGED <<error, otherVars>>

\* except Exception on the write: the open failed (the file is untouched), or the
\* file was truncated by the open and the write stopped after k lines
WriteError ==
    /\ pc = "write"
    /\ \/ disk' = disk /\ UNCHANGED writes
       \/ \E k \in 0..(Len(updated_lines) - 1) :
              /\ disk' = SubSeq(updated_lines, 1, k)
              /\ writes' = writes + 1
    /\ result' = Nothing(script)
    /\ pc' = "done"
    /\ UNCHANGED <<script, file_mappings, lines, line_number, line, broken_patterns,
                   sorted_patterns, updated_line, fixes_made, updated_lines,
                   total_fixes, total_patterns, file_modified>>
    /\ error' = "write"
    /\ UNCHANGED otherVars

Next ==
    \/ ReadFile
    \/ ReadError
    \/ DetectLine
    \/ FixPattern
    \/ FixReturn
    \/ EndOfLines
    \/ WriteFile
    \/ WriteError

Spec == Init /\ [][Next]_vars

(***************************************************************************)
(* main() of src/scripts/fix_broken_links.py: load the registry, list the  *)
(* files, pass each file to process_file, print the summary.               *)
(***************************************************************************)
\* process_file has not been called yet
FileIdle ==
    /\ disk = <<>>
    /\ writes = 0
    /\ pc = "idle"
    /\ lines = <<>>
    /\ line_number = 0
    /\ line = <<>>
    /\ broken_patterns = <<>>
    /\ sorted_patterns = <<>>
    /\ updated_line = <<>>
    /\ fixes_made = 0
    /\ updated_lines = <<>>
    /\ total_fixes = 0
    /\ total_patterns = 0
    /\ file_modified = FALSE
    /\ result = 0
    /\ error = "none"

RunInit ==
    /\ script = "main"
    /\ file_mappings = EmptyMappings
    /\ FileIdle
    /\ main_pc = "load"
    /\ \/ listing \in Listings /\ tree = OneFileTree
       \/ listing \in {GoodListing, MissingListing} /\ tree \in Trees
    /\ files_to_process = <<>>
    /\ file_index = 0
    /\ total_files_fixed = 0
    /\ run_total_fixes = 0
    /\ outcomes = <<>>
    /\ ValidatorIdle
    /\ ToolsIdle

\* file_mappings = load_file_mappings(); if not file_mappings: return
LoadMappings ==
    /\ main_pc = "load"
    /\ file_mappings' = LoadFileMappings(listing)
    /\ main_pc' = IF DOMAIN file_mappings' = {} THEN "exit" ELSE "list"
    /\ UNCHANGED <<script, disk, writes, pc, lines, line_number, line, broken_patterns,
                   sorted_patterns, updated_line, fixes_made, updated_lines,
                   total_fixes, total_patterns, file_modified, result, error>>
    /\ UNCHANGED <<listing, tree, files_to_process, file_index, total_files_fixed,
                   run_total_fixes, outcomes>>
    /\ UNCHANGED <<validatorVars, toolVars>>

\* files_to_process = get_all_mdc_files(); if not files_to_process: return
ListFiles ==
    /\ main_pc = "list"
    /\ \E found \in { [ok |-> TRUE, paths |-> o] : o \in FindOrders(DOMAIN tree) }
                        \cup { [ok |-> FALSE, paths |-> <<>>] } :
           /\ files_to_process' = GetAllMdcFiles(found)
           /\ main_pc' = IF files_to_process' = <<>> THEN "exit" ELSE "loop"
    /\ UNCHANGED fileVars
    /\ UNCHANGED <<listing, tree, file_index, total_files_fixed, run_total_fixes,
                   outcomes>>
    /\ UNCHANGED <<validatorVars, toolVars>>

\* for filepath in files_to_process: the call process_file(filepath, file_mappings)
StartFile ==
    /\ main_pc = "loop"
    /\ pc \in {"idle", "returned"}
    /\ file_index < Len(files_to_process)
    /\ disk' = tree[files_to_process[file_index + 1]]
    /\ writes' = 0
    /\ pc' = "read"
    /\ lines' = <<>>
    /\ line_number' = 0
    /\ line' = <<>>
    /\ broken_patterns' = <<>>
    /\ sorted_patterns' = <<>>
    /\ updated_line' = <<>>
    /\ fixes_made' = 0
    /\ updated_lines' = <<>>
    /\ total_fixes' = 0
    /\ total_patterns' = 0
    /\ result' = 0
    /\ error' = "none"
    /\ UNCHANGED <<script, file_mappings, file_modified>>
    /\ UNCHANGED mainVars
    /\ UNCHANGED <<validatorVars, toolVars>>

\* process_file has returned: if fixes > 0, count the file and its fixes
FileReturn ==
    /\ main_pc = "loop"
    /\ pc = "done"
    /\ LET filepath == files_to_process[file_index + 1] IN
       /\ tree' = [tree EXCEPT ![filepath] = disk]
       /\ outcomes' = Append(outcomes, [filepath |-> filepath, fixes |-> result,
                                        error |-> error, writes |-> writes])
    /\ total_files_fixed' = IF result > 0 THEN total_files_fixed + 1 ELSE total_files_fixed
    /\ run_total_fixes' = IF result > 0 THEN run_total_fixes + result ELSE run_total_fixes
    /\ file_index' = file_index + 1
    /\ pc' = "returned"
    /\ UNCHANGED <<script, file_mappings, disk, writes, lines, line_number, line,
                   broken_patterns, sorted_patterns, updated_line, fixes_made,
                   updated_lines, total_fixes, total_patterns, file_modified, result,
                   error>>
    /\ UNCHANGED <<main_pc, listing, files_to_process>>
    /\ UNCHANGED <<validatorVars, toolVars>>

\* the loop is over: the summary is printed
Summary ==
    /\ main_pc = "loop"
    /\ pc \in {"idle", "returned"}
    /\ file_index = Len(files_to_process)
    /\ main_pc' = "summary"
    /\ UNCHANGED fileVars
    /\ UNCHANGED <<listing, tree, files_to_process, file_index, total_files_fixed,
                   run_total_fixes, outcomes>>
    /\ UNCHANGED <<validatorVars, toolVars>>

RunNext ==
    \/ LoadMappings
    \/ ListFiles
    \/ StartFile
    \/ ReadFile
    \/ ReadError
    \/ DetectLine
    \/ FixPattern
    \/ FixReturn
    \/ EndOfLines
    \/ WriteFile
    \/ WriteError
    \/ FileReturn
    \/ Summary

RunSpec == RunInit /\ [][RunNext]_vars

\* the registry gets loaded: what LoadMappings does to main_pc
LoadAdvance == main_pc = "load" /\ main_pc' \in {"list", "exit"}

\* the next line gets scanned: what DetectLine does to line_number
ScanAdvance == pc = "scan" /\ line_number < Len(lines) /\ line_number' = line_number + 1

\* the other steps of main() and of the process_file it called
Advance ==
    \/ ListFiles
    \/ StartFile
    \/ ReadFile
    \/ ReadError
    \/ FixPattern
    \/ FixReturn
    \/ EndOfLines
    \/ WriteFile
    \/ WriteError
    \/ FileReturn
    \/ Summary

\* main() is sequential code: it keeps running until it returns
FairRunSpec ==
    RunSpec /\ WF_main_pc(LoadAdvance) /\ WF_line_number(ScanAdvance) /\ WF_vars(Advance)

(***************************************************************************)
(* MDCPathValidator(): the constructor, then validate_all_mdc_files.  The  *)
(* file system holds nothing but the project, and the working directory is *)
(* the project root.                                                       *)
(***************************************************************************)
ValidatorInit ==
    /\ script = "main"
    /\ file_mappings = EmptyMappings
    /\ FileIdle
    /\ MainIdle
    /\ v_pc = "new"
    /\ project \in Projects
    /\ dry_run \in BOOLEAN
    /\ valid_files = EmptyMappings
    /\ mdc_files = <<>>
    /\ content = <<>>
    /\ original_content = <<>>
    /\ links = <<>>
    /\ link_index = 0
    /\ results = NewResults(<<>>)
    /\ all_results = NewAllResults(0)
    /\ v_writes = <<>>
    /\ ToolsIdle

\* __init__: self.valid_files = {}; self.load_existing_mappings()
LoadExisting ==
    /\ v_pc = "new"
    /\ \E readable \in BOOLEAN : valid_files' = LoadExistingMappings(project, readable)
    /\ v_pc' = "scan"
    /\ UNCHANGED <<project, dry_run, mdc_files, content, original_content, links,
                   link_index, results, all_results, v_writes>>
    /\ UNCHANGED <<fileVars, mainVars, toolVars>>

\* validate_all_mdc_files: self.scan_project_files(); find lists the files in some
\* order, or fails and nothing is added
ScanProjectFiles ==
    /\ v_pc = "scan"
    /\ \/ \E o \in FindOrdersOf({ f \in DOMAIN project : IsScanned(f) }) :
              valid_files' = ScanFiles(valid_files, [i \in 1..Len(o) |-> Abs(o[i])])
       \/ valid_files' = valid_files
    /\ v_pc' = "walk"
    /\ UNCHANGED <<project, dry_run, mdc_files, content, original_content, links,
                   link_index, results, all_results, v_writes>>
    /\ UNCHANGED <<fileVars, mainVars, toolVars>>

\* the os.walk loop that fills mdc_files, and all_results = {...}
WalkMdcFiles ==
    /\ v_pc = "walk"
    /\ \E o \in WalkOrders({ f \in DOMAIN project : IsWalked(f) }) :
           mdc_files' = [i \in 1..Len(o) |-> Abs(o[i])]
    /\ all_results' = NewAllResults(Len(mdc_files'))
    /\ v_pc' = "files"
    /\ UNCHANGED <<project, dry_run, valid_files, content, original_content, links,
                   link_index, results, v_writes>>
    /\ UNCHANGED <<fileVars, mainVars, toolVars>>

\* how many calls of fix_file_links have ended in the except clause
ErrorCount ==
    Cardinality({ i \in 1..Len(all_results.file_results) :
                      all_results.file_results[i].error })

\* the file the loop of validate_all_mdc_files is at
CurrentFile == mdc_files[all_results.files_processed + 1]

\* fix_file_links: the file is read and its links are found
FixFileOpen ==
    /\ v_pc = "files"
    /\ all_results.files_processed < Len(mdc_files)
    /\ content' = project[RelPath(CurrentFile, ProjectRoot)]
    /\ original_content' = content'
    /\ links' = FindMarkdownLinks(content')
    /\ link_index' = 0
    /\ results' = [NewResults(CurrentFile) EXCEPT !.links_found = Len(links')]
    /\ v_pc' = "links"
    /\ UNCHANGED <<project, dry_run, valid_files, mdc_files, all_results, v_writes>>
    /\ UNCHANGED <<fileVars, mainVars, toolVars>>

\* fix_file_links: open or read raises, the except clause records the error
FixFileOpenError ==
    /\ v_pc = "files"
    /\ all_results.files_processed < Len(mdc_files)
    /\ ErrorCount < MaxIOErrors
    /\ content' = <<>>
    /\ original_content' = <<>>
    /\ links' = <<>>
    /\ link_index' = 0
    /\ results' = [NewResults(CurrentFile) EXCEPT !.error = TRUE]
    /\ v_pc' = "return"
    /\ UNCHANGED <<project, dry_run, valid_files, mdc_files, all_results, v_writes>>
    /\ UNCHANGED <<fileVars, mainVars, toolVars>>

\* one pass of the loop over links: a broken link is recorded, a link whose
\* corrected path differs is replaced everywhere in content
FixFileLink ==
    /\ v_pc = "links"
    /\ link_index < Len(links)
    /\ LET l == links[link_index + 1]
           v == ValidateLinkPath(valid_files, project, l.link_path, results.file)
           new_link == Replacement(l.link_text, v.path)
       IN  IF ~v.is_valid
           THEN /\ results' = [results EXCEPT !.broken_links =
                                  Append(@, [text |-> l.link_text, path |-> l.link_path,
                                             full_match |-> l.full_match])]
                /\ content' = content
           ELSE IF v.path # l.link_path
           THEN /\ content' = Replace(content, l.full_match, new_link)
                /\ results' = [results EXCEPT
                                  !.fixes_applied =
                                      Append(@, [original |-> l.full_match,
                                                 fixed |-> new_link,
                                                 old_path |-> l.link_path,
                                                 new_path |-> v.path]),
                                  !.links_fixed = @ + 1]
           ELSE UNCHANGED <<content, results>>
    /\ link_index' = link_index + 1
    /\ UNCHANGED <<v_pc, project, dry_run, valid_files, mdc_files, original_content,
                   links, all_results, v_writes>>
    /\ UNCHANGED <<fileVars, mainVars, toolVars>>

\* the write does not look at dry_run
WillWriteBackAlways == content # original_content

\* if not dry_run and content != original_content
WillWriteBack == ~dry_run /\ content # original_content

\* the loop over links is over: the file is written back if need be
FixFileWrite ==
    /\ v_pc = "links"
    /\ link_index = Len(links)
    /\ IF WillWriteBack
       THEN /\ project' = [project EXCEPT ![RelPath(results.file, ProjectRoot)] = content]
            /\ v_writes' = Append(v_writes, results.file)
       ELSE UNCHANGED <<project, v_writes>>
    /\ v_pc' = "return"
    /\ UNCHANGED <<dry_run, valid_files, mdc_files, content, original_content, links,
                   link_index, results, all_results>>
    /\ UNCHANGED <<fileVars, mainVars, toolVars>>

\* open for writing or write raises: the file is as it was or cut to nothing, and
\* the except clause records the error
FixFileWriteError ==
    /\ v_pc = "links"
    /\ link_index = Len(links)
    /\ WillWriteBack
    /\ ErrorCount < MaxIOErrors
    /\ \/ UNCHANGED <<project, v_writes>>
       \/ /\ project' = [project EXCEPT ![RelPath(results.file, ProjectRoot)] = <<>>]
          /\ v_writes' = Append(v_writes, results.file)
    /\ results' = [results EXCEPT !.error = TRUE]
    /\ v_pc' = "return"
    /\ UNCHANGED <<dry_run, valid_files, mdc_files, content, original_content,
                   links, link_index, all_results>>
    /\ UNCHANGED <<fileVars, mainVars, toolVars>>

\* fix_file_links has returned: the loop of validate_all_mdc_files adds it up
FixFileCollect ==
    /\ v_pc = "return"
    /\ all_results' =
           [all_results EXCEPT
               !.file_results = Append(@, results),
               !.files_processed = @ + 1,
               !.total_links_found = @ + results.links_found,
               !.total_links_fixed = @ + results.links_fixed,
               !.total_broken_links = @ + Len(results.broken_links)]
    /\ v_pc' = "files"
    /\ UNCHANGED <<project, dry_run, valid_files, mdc_files, content, original_content,
                   links, link_index, results, v_writes>>
    /\ UNCHANGED <<fileVars, mainVars, toolVars>>

\* the loop is over: the summary is printed and all_results returned
ValidateSummary ==
    /\ v_pc = "files"
    /\ all_results.files_processed = Len(mdc_files)
    /\ v_pc' = "summary"
    /\ UNCHANGED <<project, dry_run, valid_files, mdc_files, content, original_content,
                   links, link_index, results, all_results, v_writes>>
    /\ UNCHANGED <<fileVars, mainVars, toolVars>>

ValidatorNext ==
    \/ LoadExisting
    \/ ScanProjectFiles
    \/ WalkMdcFiles
    \/ FixFileOpen
    \/ FixFileOpenError
    \/ FixFileLink
    \/ FixFileWrite
    \/ FixFileWriteError
    \/ FixFileCollect
    \/ ValidateSummary

ValidatorSpec == ValidatorInit /\ [][ValidatorNext]_vars

(***************************************************************************)
(* main() of fix_paths.py, final_fix.py and fix_paths_comprehensive.py:    *)
(* glob the .mdc files, then read, substitute and write back each in       *)
(* sorted order.  Nothing catches an exception.                            *)
(***************************************************************************)
FixInit ==
    /\ script = "main"
    /\ file_mappings = EmptyMappings
    /\ FileIdle
    /\ MainIdle
    /\ ValidatorIdle
    /\ ListIdle
    /\ fix_script \in FixScripts
    /\ fix_pc = "glob"
    /\ folder \in Folders
    /\ fix_files = <<>>
    /\ fix_index = 0
    /\ fix_content = <<>>
    /\ fix_original = <<>>
    /\ fix_written = <<>>
    /\ fix_error = "none"
    /\ passes = 1

\* glob.glob('*.mdc') lists a name that ends in .mdc and does not start with a dot;
\* main leaves out the names that start with 00_ or 01_
IsGlobbed(f) ==
    /\ EndsWithStr(f, DotMdc)
    /\ ~StartsWith(f, ".")
    /\ ~StartsWithStr(f, <<"0", "0", "_">>)
    /\ ~StartsWithStr(f, <<"0", "1", "_">>)

\* the function main calls for each file, on the text of the file
FixText(sc, text) ==
    CASE sc = "fix_paths" -> FixFilePaths(text)
      [] sc = "final_fix" -> FixAllPaths(text)
      [] sc = "comprehensive" -> ComprehensivePathFix(text)

\* files = glob.glob('*.mdc'), filtered; the loop runs over sorted(files)
GlobFiles ==
    /\ fix_pc = "glob"
    /\ \E o \in Perms({ f \in DOMAIN folder : IsGlobbed(f) }) : fix_files' = SortPaths(o)
    /\ fix_index' = 0
    /\ fix_pc' = "loop"
    /\ UNCHANGED <<fix_script, folder, fix_content, fix_original, fix_written,
                   fix_error, passes>>
    /\ UNCHANGED <<fileVars, mainVars, validatorVars, listVars>>

\* with open(filename, 'r') as f: content = f.read(); original_content = content
FixRead ==
    /\ fix_pc = "loop"
    /\ fix_index < Len(fix_files)
    /\ fix_content' = folder[fix_files[fix_index + 1]]
    /\ fix_original' = fix_content'
    /\ fix_pc' = "sub"
    /\ UNCHANGED <<fix_script, folder, fix_files, fix_index, fix_written, fix_error,
                   passes>>
    /\ UNCHANGED <<fileVars, mainVars, validatorVars, listVars>>

\* open or read raises: no try statement is around it, in the function or in main
FixReadError ==
    /\ fix_pc = "loop"
    /\ fix_index < Len(fix_files)
    /\ fix_error' = "read"
    /\ fix_pc' = "crashed"
    /\ UNCHANGED <<fix_script, folder, fix_files, fix_index, fix_content, fix_original,
                   fix_written, passes>>
    /\ UNCHANGED <<fileVars, mainVars, validatorVars, listVars>>

\* the re.sub and replace calls
FixSubstitute ==
    /\ fix_pc = "sub"
    /\ fix_content' = FixText(fix_script, fix_content)
    /\ fix_pc' = "write"
    /\ UNCHANGED <<fix_script, folder, fix_files, fix_index, fix_original, fix_written,
                   fix_error, passes>>
    /\ UNCHANGED <<fileVars, mainVars, validatorVars, listVars>>

\* if content != original_content: write and return True; else return False
FixWrite ==
    /\ fix_pc = "write"
    /\ IF fix_content # fix_original
       THEN /\ folder' = [folder EXCEPT ![fix_files[fix_index + 1]] = fix_content]
            /\ fix_written' = Append(fix_written, fix_files[fix_index + 1])
       ELSE UNCHANGED <<folder, fix_written>>
    /\ fix_index' = fix_index + 1
    /\ fix_pc' = "loop"
    /\ UNCHANGED <<fix_script, fix_files, fix_content, fix_original, fix_error, passes>>
    /\ UNCHANGED <<fileVars, mainVars, validatorVars, listVars>>

\* open for writing or write raises: the file is as it was or cut to nothing, and
\* the exception leaves main
FixWriteError ==
    /\ fix_pc = "write"
    /\ fix_content # fix_original
    /\ \/ UNCHANGED folder
       \/ folder' = [folder EXCEPT ![fix_files[fix_index + 1]] = <<>>]
    /\ fix_error' = "write"
    /\ fix_pc' = "crashed"
    /\ UNCHANGED <<fix_script, fix_files, fix_index, fix_content, fix_original,
                   fix_written, passes>>
    /\ UNCHANGED <<fileVars, mainVars, validatorVars, listVars>>

\* the loop is over: the completion message is printed
FixComplete ==
    /\ fix_pc = "loop"
    /\ fix_index = Len(fix_files)
    /\ fix_pc' = "done"
    /\ UNCHANGED <<fix_script, folder, fix_files, fix_index, fix_content, fix_original,
                   fix_written, fix_error, passes>>
    /\ UNCHANGED <<fileVars, mainVars, validatorVars, listVars>>

\* the script is run again over the same directory
FixAgain ==
    /\ fix_pc = "done"
    /\ passes < MaxPasses
    /\ passes' = passes + 1
    /\ fix_pc' = "glob"
    /\ fix_written' = <<>>
    /\ UNCHANGED <<fix_script, folder, fix_files, fix_index, fix_content, fix_original,
                   fix_error>>
    /\ UNCHANGED <<fileVars, mainVars, validatorVars, listVars>>

FixNext ==
    \/ GlobFiles
    \/ FixRead
    \/ FixReadError
    \/ FixSubstitute
    \/ FixWrite
    \/ FixWriteError
    \/ FixComplete
    \/ FixAgain

FixSpec == FixInit /\ [][FixNext]_vars

(***************************************************************************)
(* main() of the listing scripts: find the files, format an entry for each *)
(* and write the entries to the listing.                                   *)
(***************************************************************************)
ListInit ==
    /\ script = "main"
    /\ file_mappings = EmptyMappings
    /\ FileIdle
    /\ MainIdle
    /\ ValidatorIdle
    /\ FixIdle
    /\ list_script \in ListScripts
    /\ list_pc = "find"
    /\ find_output \in { S \in SUBSET FoundPaths(list_script) : Cardinality(S) <= MaxEntries }
    /\ list_files = <<>>
    /\ list_index = 0
    /\ list_filepath = <<>>
    /\ formatted_entry = None
    /\ file_list_content = <<>>
    /\ processed_files = 0
    /\ target_file = None

\* the find command prints the files in some order; files.sort()
GetFiles ==
    /\ list_pc = "find"
    /\ \E o \in Perms(find_output) : list_files' = SortPaths(o)
    /\ list_pc' = "check"
    /\ UNCHANGED <<list_script, find_output, list_index, list_filepath, formatted_entry,
                   file_list_content, processed_files, target_file>>
    /\ UNCHANGED <<fileVars, mainVars, validatorVars, fixVars>>

\* if not files: return
NoFilesFound ==
    /\ list_pc = "check"
    /\ list_files = <<>>
    /\ list_pc' = "done"
    /\ UNCHANGED <<list_script, find_output, list_files, list_index, list_filepath,
                   formatted_entry, file_list_content, processed_files, target_file>>
    /\ UNCHANGED <<fileVars, mainVars, validatorVars, fixVars>>

\* if not target_file.exists(): return
NoTargetFile ==
    /\ list_pc = "check"
    /\ list_files # <<>>
    /\ TargetPath(list_script) \notin find_output
    /\ list_pc' = "done"
    /\ UNCHANGED <<list_script, find_output, list_files, list_index, list_filepath,
                   formatted_entry, file_list_content, processed_files, target_file>>
    /\ UNCHANGED <<fileVars, mainVars, validatorVars, fixVars>>

\* file_list_content = ""; processed_files = 0
StartEntries ==
    /\ list_pc = "check"
    /\ list_files # <<>>
    /\ TargetPath(list_script) \in find_output
    /\ file_list_content' = <<>>
    /\ processed_files' = 0
    /\ list_index' = 0
    /\ list_pc' = "entries"
    /\ UNCHANGED <<list_script, find_output, list_files, list_filepath, formatted_entry,
                   target_file>>
    /\ UNCHANGED <<fileVars, mainVars, validatorVars, fixVars>>

\* one turn of the loop: format the entry and, unless it is None, append it
FormatNextEntry ==
    /\ list_pc = "entries"
    /\ list_index < Len(list_files)
    /\ list_filepath' = list_files[list_index + 1]
    /\ formatted_entry' = FormatEntry(list_script, list_filepath')
    /\ IF formatted_entry'.none \/ formatted_entry'.text = <<>>
       THEN UNCHANGED <<file_list_content, processed_files>>
       ELSE /\ file_list_content' = file_list_content \o formatted_entry'.text \o Newline
            /\ processed_files' = processed_files + 1
    /\ list_index' = list_index + 1
    /\ UNCHANGED <<list_script, list_pc, find_output, list_files, target_file>>
    /\ UNCHANGED <<fileVars, mainVars, validatorVars, fixVars>>

\* f.write(file_list_content.rstrip() + '\n')
WriteListing ==
    /\ list_pc = "entries"
    /\ list_index = Len(list_files)
    /\ target_file' = Entry(RStrip(file_list_content) \o Newline)
    /\ list_pc' = "done"
    /\ UNCHANGED <<list_script, find_output, list_files, list_index, list_filepath,
                   formatted_entry, file_list_content, processed_files>>
    /\ UNCHANGED <<fileVars, mainVars, validatorVars, fixVars>>

\* open or write raises: the listing is as it was or cut to nothing, and the except
\* clause prints the error
WriteListingError ==
    /\ list_pc = "entries"
    /\ list_index = Len(list_files)
    /\ target_file' \in {None, Entry(<<>>)}
    /\ list_pc' = "done"
    /\ UNCHANGED <<list_script, find_output, list_files, list_index, list_filepath,
                   formatted_entry, file_list_content, processed_files>>
    /\ UNCHANGED <<fileVars, mainVars, validatorVars, fixVars>>

ListNext ==
    \/ GetFiles
    \/ NoFilesFound
    \/ NoTargetFile
    \/ StartEntries
    \/ FormatNextEntry
    \/ WriteListing
    \/ WriteListingError

ListSpec == ListInit /\ [][ListNext]_vars

(***************************************************************************)
(* Properties.                                                             *)
(***************************************************************************)
\* the current line has been through detect and fix: line is what went in,
\* updated_line and fixes_made are what came out
LineDone == pc = "scan" /\ line_number > 0

\* the filename the fix looks up for match p
Extracted(sc, p) ==
    CASE sc = "main" -> [ok |-> TRUE, filename |-> p.filename]
      [] sc = "backup" -> BkExtract(p)
      [] sc = "cursor" -> FirstBracketName(p.fix)

\* no match of the line has its filename in the registry
NoneInRegistry ==
    \A i \in 1..Len(broken_patterns) :
        LET x == Extracted(script, broken_patterns[i]) IN
        ~(x.ok /\ x.filename \in DOMAIN file_mappings)

\* every match of the line has its filename in the registry
AllInRegistry ==
    \A i \in 1..Len(broken_patterns) :
        LET x == Extracted(script, broken_patterns[i]) IN
        x.ok /\ x.filename \in DOMAIN file_mappings

\* the line is body, with or without its line terminator
LineIs(body) == line = body \/ line = body \o Newline

\* what follows body on the line: its line terminator, if any
Terminator(body) == Suffix(line, Len(body))

\* C1: in the main script a second detect + fix pass over the output of a first pass
\* returns it unchanged and counts no fix.
C1_SecondPassIsNoOp ==
    (script = "main" /\ LineDone)
        => Rewrite("main", updated_line, line_number, file_mappings)
               = [line |-> updated_line, fixes |-> 0]

EndsWithMdc(f) == Len(f) > 4 /\ SubSeq(f, Len(f) - 3, Len(f)) = <<".", "m", "d", "c">>

\* no bracket, parenthesis, whitespace or backtick, and no mdc: prefix
PlainPath(c) ==
    /\ Len(c) > 0
    /\ \A i \in 1..Len(c) : c[i] \notin {"[", "]", "(", ")", Backtick} \cup Whitespace
    /\ Prefix(c, 4) # <<"m", "d", "c", ":">>

\* C2: in the backup script detect returns no match for a line that is only a
\* corrected link [F](C), F a registry filename ending in .mdc and C its plain path.
C2_CorrectedLinkHasNoMatch ==
    (script = "backup" /\ LineDone)
        => \A f \in DOMAIN file_mappings :
               (EndsWithMdc(f) /\ PlainPath(file_mappings[f])
                    /\ LineIs(Replacement(f, file_mappings[f])))
                   => broken_patterns = <<>>

\* C3: in the main and the backup script, when no filename extracted from the
\* matches of a line is in the registry, fix returns the line unchanged and counts
\* no fix.
C3_RegistryMissKeepsLine ==
    (script \in {"main", "backup"} /\ LineDone /\ NoneInRegistry)
        => (updated_line = line /\ fixes_made = 0)

\* a line with matches, none of which has its filename in the registry, went
\* through fix
C3_Witness ==
    /\ script \in {"main", "backup"}
    /\ LineDone
    /\ broken_patterns # <<>>
    /\ NoneInRegistry
    /\ \E i \in 1..Len(broken_patterns) : Extracted(script, broken_patterns[i]).ok

\* C4: in the cursor-rules script a match whose filename is not in the registry is
\* left unmodified and no fix is recorded for it.
C4_CursorRegistryMissKeepsLine ==
    (script = "cursor" /\ LineDone /\ NoneInRegistry)
        => (updated_line = line /\ fixes_made = 0)

\* C5: in the main script, when fix splices a match, the text at the match's
\* recorded span in the line being edited is still the text the match matched.
C5_SpliceTargetIntact ==
    (/\ script = "main"
     /\ pc = "fix"
     /\ sorted_patterns # <<>>
     /\ Head(sorted_patterns).filename \in DOMAIN file_mappings)
        => Slice(updated_line, Head(sorted_patterns).start, Head(sorted_patterns).end)
               = Head(sorted_patterns).full_text

\* the spans of the matches are pairwise disjoint
Disjoint(ps) ==
    \A i, j \in 1..Len(ps) :
        i < j => (ps[i].end <= ps[j].start \/ ps[j].end <= ps[i].start)

RECURSIVE ExpectedRewrite(_, _, _, _)
\* ln from offset pos on, each span of ps replaced by [filename](path) and every
\* other character kept
ExpectedRewrite(ln, ps, reg, pos) ==
    IF pos >= Len(ln) THEN <<>>
    ELSE IF \E i \in 1..Len(ps) : ps[i].start = pos
    THEN LET p == ps[CHOOSE i \in 1..Len(ps) : ps[i].start = pos] IN
         Replacement(p.filename, reg[p.filename]) \o ExpectedRewrite(ln, ps, reg, p.end)
    ELSE <<ln[pos + 1]>> \o ExpectedRewrite(ln, ps, reg, pos + 1)

\* the orders in which n matches can be appended
Orders(n) == { f \in [1..n -> 1..n] : \A i, j \in 1..n : f[i] = f[j] => i = j }

\* C6: in the main script, for a line whose matches have pairwise disjoint spans
\* and filenames all in the registry, fix replaces each span by [filename](path),
\* keeps every other character and counts one fix per match, in whatever order the
\* matches were appended.
C6_DisjointMatchesAllFixed ==
    (script = "main" /\ LineDone /\ Disjoint(broken_patterns) /\ AllInRegistry)
        => LET n == Len(broken_patterns)
               expected == ExpectedRewrite(line, broken_patterns, file_mappings, 0)
           IN  /\ updated_line = expected
               /\ fixes_made = n
               /\ \A f \in Orders(n) :
                      FixLineMain(line, [i \in 1..n |-> broken_patterns[f[i]]],
                                  file_mappings)
                          = [line |-> expected, fixes |-> n]

\* a line with two disjoint matches, both in the registry, went through fix
C6_Witness ==
    /\ script = "main"
    /\ LineDone
    /\ Len(broken_patterns) >= 2
    /\ Disjoint(broken_patterns)
    /\ AllInRegistry
    /\ updated_line # line

\* C7: in the backup script the line [F](mdc:p)), F in the registry with path C, is
\* rewritten to exactly [F](C) with a fix count of 1.
C7_MdcDoubleParenFixedOnce ==
    (/\ script = "backup"
     /\ LineDone
     /\ LineIs(MdcDoubleParenLine)
     /\ FileName \in DOMAIN file_mappings)
        => /\ updated_line = Replacement(FileName, file_mappings[FileName])
                                 \o Terminator(MdcDoubleParenLine)
           /\ fixes_made = 1

\* C8: in the main script the line [`[F](p)`](p), F in the registry with path C, is
\* rewritten to exactly [F](C) with a fix count of 1.
C8_NestedBacktickFixedOnce ==
    (/\ script = "main"
     /\ LineDone
     /\ LineIs(NestedBacktickLine)
     /\ FileName \in DOMAIN file_mappings)
        => /\ updated_line = Replacement(FileName, file_mappings[FileName])
                                 \o Terminator(NestedBacktickLine)
           /\ fixes_made = 1

\* C9: in the main script a line that holds a well-formed inline-code link token
\* comes out of detect + fix unchanged.
C9_InlineCodeLineKept ==
    (script = "main" /\ LineDone /\ Search(inline_code_pattern, line))
        => updated_line = line

\* C10: in the main script process_file opens the file for writing only if the
\* rewritten content differs from the content read.
C10_WriteOnlyIfChanged ==
    (script = "main" /\ pc = "write") => updated_lines # lines

\* the line is one broken link: a doubled opening bracket, or a link nested in the
\* path of a link
HasOneBrokenLink(ln) == \E b \in {DoubleSquareLink, NestedLine} : ln \in {b, b \o Newline}

\* the line has no bracket and no parenthesis
HasNoLink(ln) == \A i \in 1..Len(ln) : ln[i] \notin {"[", "]", "(", ")"}

BrokenLinkLines(ls) == { i \in 1..Len(ls) : HasOneBrokenLink(ls[i]) }

\* process_file ran to its end on a file whose lines hold one broken link or no link
C11_Case ==
    /\ script = "main"
    /\ lines # <<>>
    /\ line_number = Len(lines)
    /\ error = "none"
    /\ FileName \in DOMAIN file_mappings
    /\ \A i \in 1..Len(lines) : HasOneBrokenLink(lines[i]) \/ HasNoLink(lines[i])

\* C11: in the main script, for a file with k lines of one broken link each (its
\* filename in the registry) and no link elsewhere, process_file changes exactly
\* those k lines, writes the file back and returns k.
C11_EachBrokenLinkCountedOnce ==
    LET k == Cardinality(BrokenLinkLines(lines)) IN
    /\ (C11_Case /\ pc = "scan")
           => /\ \A i \in 1..Len(lines) :
                     (updated_lines[i] # lines[i]) <=> HasOneBrokenLink(lines[i])
              /\ total_fixes = k
              /\ (k > 0 => WillWrite)
    /\ (C11_Case /\ pc = "done")
           => /\ result = k
              /\ (k > 0 => (writes = 1 /\ disk = updated_lines))

CountNewlines(s) == Cardinality({ i \in 1..Len(s) : s[i] = "\n" })

EndsWithNewline(s) == Len(s) > 0 /\ s[Len(s)] = "\n"

\* C15: in the backup script a rewritten line keeps its line terminator, so the
\* rewritten file has as many lines as the input.
C15_LineTerminatorKept ==
    (script = "backup" /\ LineDone)
        => /\ EndsWithNewline(updated_line) <=> EndsWithNewline(line)
           /\ CountNewlines(updated_line) = CountNewlines(line)

\* C16: in the main and the backup script a line without any of [ ] ( ) yields no
\* match and is kept unchanged with no fix counted.
C16_NoBracketNoMatch ==
    (script \in {"main", "backup"} /\ LineDone /\ HasNoLink(line))
        => (broken_patterns = <<>> /\ updated_line = line /\ fixes_made = 0)

\* a line that names filenames and rule paths without any bracket went through
\* detect
C16_Witness ==
    /\ script \in {"main", "backup"}
    /\ LineDone
    /\ line = BarePathsLine \o Newline
    /\ updated_lines[line_number] = line

\* main has gone through the whole list
RunComplete ==
    /\ main_pc = "summary"
    /\ Len(outcomes) = Len(files_to_process)
    /\ \A i \in 1..Len(outcomes) : outcomes[i].filepath = files_to_process[i]

\* C12: in the main script a read or write error on one file does not stop the run:
\* every later file is passed to process_file and the summary is reached.
C12_ErrorDoesNotStopRun == (main_pc = "loop" /\ error # "none") ~> RunComplete

\* the summary is reached after a file that failed and a later file
C12_Witness ==
    /\ RunComplete
    /\ \E i \in 1..(Len(outcomes) - 1) : outcomes[i].error # "none"

\* C13: in the main script, with a registry that is missing or has no entry, the run
\* goes on: every target file is passed to process_file.
C13_EmptyRegistryRunContinues ==
    (main_pc \in {"summary", "exit"} /\ DOMAIN file_mappings = {})
        => \A p \in DOMAIN tree :
               IsTarget(p) => \E i \in 1..Len(outcomes) : outcomes[i].filepath = p

\* C14: in the main script a file whose read or write failed is counted by the run:
\* when its process_file returns, one of main's counts changes (a file that needed
\* no fix changes none).
C14_FailureIsCounted ==
    [][(main_pc = "loop" /\ pc = "done" /\ error # "none")
           => <<total_files_fixed, run_total_fixes>>' # <<total_files_fixed, run_total_fixes>>]_vars

\* the listing line is f : [f](p), surrounding whitespace aside
HasShape(raw, f, p) ==
    Strip(raw) = f \o ColonBracket \o f \o BracketParen \o p \o <<")">>

\* the listing could be read and load_file_mappings has returned
Loaded == main_pc \in {"list", "exit"} /\ listing.exists /\ listing.readable

\* C17: load_file_mappings maps each listing line of the form F : [F](P) to the
\* entry F -> P and adds no entry for any other line.
C17_ListingLineParsed ==
    Loaded =>
        /\ file_mappings = LoadLines(EmptyMappings, listing.lines)
        /\ \A i \in 1..Len(listing.lines) :
               LET before == LoadLines(EmptyMappings, SubSeq(listing.lines, 1, i - 1))
                   after == LoadLine(before, listing.lines[i])
                   shapes == { fp \in ListingNames \X ListingPaths :
                                   HasShape(listing.lines[i], fp[1], fp[2]) }
               IN  IF shapes = {} THEN after = before
                   ELSE \A fp \in shapes : after = Put(before, fp[1], fp[2])

\* what one listing line alone contributes to the registry
LineEntry(raw) == LoadLine(EmptyMappings, raw)

\* the lines of the listing that give filename f an entry
LinesFor(f) == { i \in 1..Len(listing.lines) : f \in DOMAIN LineEntry(listing.lines[i]) }

SetMax(S) == CHOOSE x \in S : \A y \in S : x >= y

C19_LoadedEntriesNeverChange ==
    [][v_pc # "new" =>
           \A f \in DOMAIN valid_files :
               f \in DOMAIN valid_files' /\ valid_files'[f] = valid_files[f]]_vars

\* validate_link_path finds neither the target nor its basename
Unresolved(l) ==
    ~ValidateLinkPath(valid_files, project, l.link_path, results.file).is_valid

\* how many times sub occurs in s
Occurrences(s, sub) ==
    Cardinality({ i \in 0..(Len(s) - Len(sub)) : Slice(s, i, i + Len(sub)) = sub })

\* C20: when fix_file_links returns, every link it found whose target neither
\* exists nor has its basename in valid_files is in broken_links, and content
\* still holds the text of the link as often as the file held such a link.
C20_BrokenLinkRecordedAndKept ==
    v_pc = "return" =>
        \A i \in 1..Len(links) :
            Unresolved(links[i]) =>
                /\ \E j \in 1..Len(results.broken_links) :
                       /\ results.broken_links[j].full_match = links[i].full_match
                       /\ results.broken_links[j].path = links[i].link_path
                /\ Occurrences(content, links[i].full_match)
                       >= Cardinality({ k \in 1..Len(links) : links[k] = links[i] })

\* validate_link_path accepts the link with a path other than the one it has
Fixable(l) ==
    LET v == ValidateLinkPath(valid_files, project, l.link_path, results.file)
    IN  v.is_valid /\ v.path # l.link_path

\* the sum of links_fixed over the files handled so far
RECURSIVE SumFixed(_)
SumFixed(rs) == IF rs = <<>> THEN 0 ELSE Head(rs).links_fixed + SumFixed(Tail(rs))

\* C21: a step changes a file only in a run without dry_run, and then only the
\* file fix_file_links is at, so that with dry_run nothing is written and every
\* file is read as it was before the run; and the links_fixed a call reports is
\* the number of links of the text read that validate_link_path corrects, a
\* number dry_run has no part in, as is the total that adds them up.
C21_DryRunWritesNothing ==
    /\ [][/\ dry_run => (project' = project /\ v_writes' = v_writes)
          /\ \A f \in DOMAIN project :
                 project'[f] # project[f] =>
                     v_pc = "links" /\ Abs(f) = results.file]_vars
    /\ [](v_pc = "return" =>
             /\ links = (IF results.error /\ results.links_found = 0 THEN <<>>
                         ELSE FindMarkdownLinks(original_content))
             /\ results.links_fixed =
                    Cardinality({ i \in 1..Len(links) : Fixable(links[i]) }))
    /\ [](all_results.total_links_fixed = SumFixed(all_results.file_results))

\* a dry run has corrected a link in content and has written nothing
C21_Witness ==
    /\ dry_run
    /\ v_pc = "return"
    /\ results.links_fixed > 0
    /\ content # original_content
    /\ v_writes = <<>>

\* main() has returned, after the summary or before the loop
MainReturned == main_pc \in {"summary", "exit"}

\* the files of the project that get_all_mdc_files keeps
TargetFiles == { f \in DOMAIN tree : IsTarget(f) }

\* the files process_file wrote back: opened for writing, the write completed
WrittenBack == { i \in 1..Len(outcomes) : outcomes[i].writes > 0 /\ outcomes[i].error = "none" }

RECURSIVE SumFixes(_)
SumFixes(I) ==
    IF I = {} THEN 0
    ELSE LET i == CHOOSE x \in I : TRUE IN outcomes[i].fixes + SumFixes(I \ {i})

\* C22: main returns, and when it has returned, the files passed to process_file
\* are the target files of the project (all of them when find has listed them),
\* each once, in ascending order; total_files_fixed is the number of files
\* written back and total_fixes the sum of their fix counts.
C22_EachFileOnceCountsMatch ==
    /\ <>MainReturned
    /\ [](MainReturned =>
             /\ \A i, j \in 1..Len(outcomes) :
                    i < j => StrLess(outcomes[i].filepath, outcomes[j].filepath)
             /\ { outcomes[i].filepath : i \in 1..Len(outcomes) } \subseteq TargetFiles
             /\ \/ { outcomes[i].filepath : i \in 1..Len(outcomes) } = TargetFiles
                \/ main_pc = "exit" /\ DOMAIN file_mappings # {}
             /\ total_files_fixed = Cardinality(WrittenBack)
             /\ run_total_fixes = SumFixes(WrittenBack))

\* the texts made of up to MaxLinks pieces out of ps, and what each is to become when
\* every piece p is replaced by to[p]
Rewritten(ps, to) ==
    UNION { { [before |-> Concat(c) \o Newline,
               after |-> Concat([i \in 1..n |-> to[c[i]]]) \o Newline]
              : c \in [1..n -> ps] } : n \in 1..MaxLinks }

\* C23: one call of fix_file_paths turns every link [f.mdc](f.mdc) into
\* [f.mdc](agents/_store/projects/_core/rules/01__AI-RUN/f.mdc), the prefix added once,
\* and leaves plain text as it is.
C23_SameDirPrefixedOnce ==
    \A r \in Rewritten({SameDirLink, PlainLine},
                       [p \in {SameDirLink, PlainLine} |->
                           IF p = SameDirLink THEN TargetLink ELSE p]) :
        (fix_script = "fix_paths" /\ fix_pc = "write" /\ fix_original = r.before)
            => fix_content = r.after

\* the texts whose links are all in the target form
TargetForm == { r.before : r \in Rewritten({TargetLink, PlainLine},
                                           [p \in {TargetLink, PlainLine} |-> p]) }

\* C24: comprehensive_path_fix neither changes nor writes a file whose links are all
\* in the target form, and a run over the files an earlier run left changes nothing.
C24_TargetFormKeptAndStable ==
    /\ [][fix_script = "comprehensive" =>
              \A f \in DOMAIN folder : folder[f] \in TargetForm => folder'[f] = folder[f]]_vars
    /\ []((fix_script = "comprehensive" /\ fix_pc = "write" /\ fix_original \in TargetForm)
              => fix_content = fix_original)
    /\ []((fix_script = "comprehensive" /\ fix_pc = "write" /\ passes >= 2)
              => fix_content = fix_original)

\* C25: run again and again over the same files, fix_all_paths comes to a text it no
\* longer changes: the last of MaxPasses runs writes nothing.
C25_RepeatedPassesSettle ==
    (fix_script = "final_fix" /\ fix_pc = "done" /\ passes = MaxPasses)
        => fix_written = <<>>

\* C26: in final_fix.py and fix_paths.py an error while a file is read or written
\* stays in the step of that file: main goes on to the later files and to its
\* completion message.
C26_ErrorStaysInFileStep ==
    fix_script \in {"final_fix", "fix_paths"} => fix_pc # "crashed"

\* the lines made of well-formed links only: [ab.mdc](p) and [ab.mdc](d/ab.mdc), the
\* paths relative and not under .cursor/rules/
WellFormedLines ==
    UNION { { Concat(c) : c \in [1..n -> {Link, CorrectedLine}] } : n \in 1..MaxFragments }

WellFormed(ln) == \E w \in WellFormedLines : ln \in {w, w \o Newline}

\* C27: in the cursor-rules script a line of well-formed links only yields no match
\* and is kept as it is, and a file of such lines is not written: process_file
\* returns False.
C27_WellFormedLineUntouched ==
    script = "cursor" =>
        /\ (LineDone /\ WellFormed(line))
               => (broken_patterns = <<>> /\ updated_lines[line_number] = lines[line_number])
        /\ (pc = "done" /\ error = "none" /\ \A i \in 1..Len(lines) : WellFormed(lines[i]))
               => (result = FALSE /\ writes = 0 /\ disk = lines)

\* the loop of the listing script has formatted the entry of list_filepath
EntryFormatted(sc) == list_script = sc /\ list_pc \in {"entries", "done"} /\ list_index > 0

\* expected of validate_paths in update_cursor_rules_files.py
Expected(test_path) ==
    LET filename == Basename(test_path) IN
    IF Contains(test_path, ListName) THEN None
    ELSE IF StartsWithStr(test_path, CursorRules \o ToolsDir)
    THEN FormattedEntry(filename, filename)
    ELSE FormattedEntry(filename, test_path)

\* C28: format_file_entry_fixed returns the entry validate_paths expects: None for a
\* path that contains cursor_files_list.mdc, name : [name](name) for a path under
\* .cursor/rules/00__TOOLS/, name : [name](full path) for any other.
C28_FixedEntryAsExpected ==
    EntryFormatted("cursor_rules") => formatted_entry = Expected(list_filepath)

\* C29: format_file_entry of update_file_list.py removes a leading ./ and nothing
\* else: the entry of ./p is basename : [basename](p).
C29_OnlyLeadingDotSlashRemoved ==
    (EntryFormatted("file_list") /\ StartsWithStr(list_filepath, <<".", "/">>))
        => LET p == Suffix(list_filepath, 2)
           IN  formatted_entry = FormattedEntry(Basename(p), p)

\* the link path of the entry name : [name](link path)
LinkPath(entry, filename) == SubSeq(entry.text, 2 * Len(filename) + 7, Len(entry.text) - 1)

\* the file a link of the listing of _core designates
Designated(link_path) == NormPath(JoinPath(CorePrefix \o RulesDir \o ToolsDir, link_path))

\* C30: format_file_entry of update_core_files_list.py gives no entry for the listing
\* core_files_list.mdc and, for every other file under agents/_store/projects/_core/,
\* an entry whose link path, resolved from agents/_store/projects/_core/rules/00__TOOLS/,
\* designates that file.
C30_CoreLinkDesignatesFile ==
    (EntryFormatted("core") /\ StartsWithStr(list_filepath, CorePrefix))
        => IF list_filepath = TargetPath("core")
           THEN formatted_entry = None
           ELSE /\ ~formatted_entry.none
                /\ Designated(LinkPath(formatted_entry, Basename(list_filepath)))
                       = list_filepath

\* the entry of a file of the root of _core was formatted: two directories up
C30_Witness ==
    /\ EntryFormatted("core")
    /\ list_filepath = CorePrefix \o AName
    /\ formatted_entry = FormattedEntry(AName, <<".", ".", "/", ".", ".", "/">> \o AName)

====
